---- MODULE Spec2Model ----
(***************************************************************************)
(* Offline-first event synchronisation of tic-track: the local SQLite      *)
(* event table (services/localStorage.ts), the Cosmos DB REST client       *)
(* (services/cosmosClient.ts) and the sync orchestrator                    *)
(* (services/eventSync.ts).                                                *)
(*                                                                         *)
(* JavaScript runs one callback at a time; an async function gives up      *)
(* control at each await.  Every action below is one such uninterrupted    *)
(* stretch: the effect of the awaited native call (SQLite statement, HTTP  *)
(* exchange) together with the synchronous continuation that follows it.   *)
(* Callers are concurrent invocations of the exported functions: a manual  *)
(* syncPendingEvents call, the setInterval callback of startAutoSync, and  *)
(* two overlapping retryFailedSyncs calls.                                 *)
(***************************************************************************)
EXTENDS Integers, Sequences, FiniteSets, TLC

\* ------------------------------------------------------------------ bounds
\* Number of events createEvent is allowed to insert in one behaviour.
MaxEvents == 2
\* Number of events in the single-pass specification SpecBatch.
MaxBatch == 3
\* Largest value of the wall clock (Date.now() abstracted to a small counter).
MaxTime == 2
MaxBlobs == 2

\* ------------------------------------------------------------- value sets
\* types/events.ts: EventType.
ValidEventTypes == {"tic", "emotional", "combined"}
\* started_at values the user may pick in the form.
StartTimes == {1, 2}
\* A nullable timestamp is <<>> (null) or <<t>>.
NULL == <<>>
Some(t) == <<t>>

\* Instants, in milliseconds, that the two date pickers of EventLogger can
\* hold when Save is pressed.
FormDates == {1000, 1400, 2000, 126000, 126400}

\* types/events.ts: SyncStatus
SyncStatuses == {"pending", "synced", "error"}

\* The invocations that can be in progress at once: the Sync button, the
\* auto-sync tick, two retryFailedSyncs calls, a getMergedEvents call and a
\* getSyncState call.
Callers == {"manual", "auto", "retry1", "retry2", "reader", "viewer"}
Retriers == {"retry1", "retry2"}

\* HTTP statuses of a failed exchange that reached the server.
FailStatuses == {401, 403, 404, 429, 500}

VARIABLES
  events,            \* rows of table `events`, in rowid (insertion) order
  nextId,            \* next uuid createEvent will draw
  now,               \* wall clock
  remote,            \* documents the Cosmos container accepted, in order
  azureConfig,       \* cosmosClient.ts azureConfig: TRUE when non-null
  isInitialized,     \* cosmosClient.ts isInitialized
  isSyncing,         \* eventSync.ts isSyncing
  lastSyncTimestamp, \* eventSync.ts lastSyncTimestamp
  syncInterval,      \* eventSync.ts syncInterval: TRUE when it holds a handle
  timers,            \* number of live setInterval timers
  pc,                \* per caller: where its invocation stands
  errs,              \* per caller: errorEvents read by retryFailedSyncs
  snap,              \* per caller: pendingEvents read by syncPendingEvents
  idx,               \* per caller: position of the for..of loop in snap
  uploaded,          \* per caller: what uploadEvent returned for snap[idx]
  syncedCount,       \* per caller: local syncedCount
  errorCount,        \* per caller: local errorCount
  ret,               \* value returned by the step just taken (NoRet if none)
  database,          \* legacy WatermelonDB: collection name -> its records
  blobServiceClient, \* AzureStorageService.blobServiceClient: TRUE when non-null
  blobs,             \* blobs the legacy storage container accepted, in order
  legacy             \* SyncService: the call in flight and where it stands

vars == <<events, nextId, now, remote, azureConfig, isInitialized, isSyncing,
          lastSyncTimestamp, syncInterval, timers, pc, errs, snap, idx,
          uploaded, syncedCount, errorCount, ret,
          database, blobServiceClient, blobs, legacy>>

storeVars == <<events, nextId>>
clientVars == <<azureConfig, isInitialized>>
timerVars == <<syncInterval, timers>>
callerVars == <<pc, errs, snap, idx, uploaded, syncedCount, errorCount>>
legacyVars == <<database, blobServiceClient, blobs, legacy>>

\* ---------------------------------------------------------------- helpers
Digits == <<"0", "1", "2", "3", "4", "5", "6", "7", "8", "9">>

\* Template-literal formatting of a non-negative count.
RECURSIVE ToStr(_)
ToStr(n) ==
  IF n < 10 THEN Digits[n + 1]
  ELSE ToStr(n \div 10) \o Digits[(n % 10) + 1]

Min(S) == CHOOSE x \in S : \A y \in S : x <= y

\* Stable sort: x is placed before the first element it strictly precedes.
Insert(x, s, Before(_, _)) ==
  LET later == {p \in 1..Len(s) : Before(x, s[p])}
      p == IF later = {} THEN Len(s) + 1 ELSE Min(later)
  IN SubSeq(s, 1, p - 1) \o <<x>> \o SubSeq(s, p, Len(s))

StableSort(s, Before(_, _)) ==
  LET f[n \in 0..Len(s)] ==
        IF n = 0 THEN <<>> ELSE Insert(s[n], f[n - 1], Before)
  IN f[Len(s)]

CreatedAsc(a, b) == a.created_at < b.created_at
StartedDesc(a, b) == a.started_at > b.started_at

Ids(s) == {s[i].id : i \in DOMAIN s}

\* The row of table/sequence s with the given id (the id is a primary key).
RowOf(s, id) == s[CHOOSE i \in DOMAIN s : s[i].id = id]

\* ---------------------------------------------------------- utils/datetime.ts
\* toISOString(date): the instant written out with its seconds and its three
\* millisecond digits.
toISOString(date) == [seconds |-> date \div 1000, millis |-> date % 1000]

\* new Date(iso).getTime()
getTime(iso) == iso.seconds * 1000 + iso.millis

\* calculateDuration(startIso, endIso)
calculateDuration(startIso, endIso) ==
  (getTime(endIso) - getTime(startIso)) \div 1000

\* ------------------------------------------------- services/localStorage.ts
\* A variant of createEvent whose row starts out with a synced_at stamp.
createEvent_StampsSyncedAt(id, eventType, startedAt, timestamp) ==
  [id |-> id,
   event_type |-> eventType,
   started_at |-> startedAt,
   created_at |-> timestamp,
   updated_at |-> timestamp,
   synced_at |-> Some(timestamp),
   sync_status |-> "pending"]

\* createEvent: the row it builds and saves.
createEvent(id, eventType, startedAt, timestamp) ==
  [id |-> id,
   event_type |-> eventType,
   started_at |-> startedAt,
   created_at |-> timestamp,
   updated_at |-> timestamp,
   synced_at |-> NULL,
   sync_status |-> "pending"]

\* SELECT * FROM events ORDER BY started_at DESC
getAllEvents(tbl) == StableSort(tbl, StartedDesc)

\* A variant of getEventsBySyncStatus ordered like getAllEvents.
getEventsBySyncStatus_ByStartedAt(tbl, status) ==
  StableSort(SelectSeq(tbl, LAMBDA e : e.sync_status = status), StartedDesc)

\* SELECT * FROM events WHERE sync_status = ? ORDER BY created_at ASC
getEventsBySyncStatus(tbl, status) ==
  StableSort(SelectSeq(tbl, LAMBDA e : e.sync_status = status), CreatedAsc)

\* A variant of updateEventSyncStatus whose statement also sets started_at.
updateEventSyncStatus_SetsStartedAt(tbl, eventId, status, syncedAt, timestamp) ==
  [i \in DOMAIN tbl |->
     IF tbl[i].id = eventId
     THEN [tbl[i] EXCEPT !.sync_status = status,
                         !.synced_at = syncedAt,
                         !.updated_at = timestamp,
                         !.started_at = timestamp]
     ELSE tbl[i]]

\* A variant of updateEventSyncStatus that inserts a row when no row has
\* the id (INSERT OR REPLACE in place of UPDATE ... WHERE id = ?).
updateEventSyncStatus_Upsert(tbl, eventId, status, syncedAt, timestamp) ==
  IF \E i \in DOMAIN tbl : tbl[i].id = eventId
  THEN [i \in DOMAIN tbl |->
          IF tbl[i].id = eventId
          THEN [tbl[i] EXCEPT !.sync_status = status,
                              !.synced_at = syncedAt,
                              !.updated_at = timestamp]
          ELSE tbl[i]]
  ELSE Append(tbl, [id |-> eventId, event_type |-> "tic",
                    started_at |-> timestamp, created_at |-> timestamp,
                    updated_at |-> timestamp, synced_at |-> syncedAt,
                    sync_status |-> status])

\* UPDATE events SET sync_status = ?, synced_at = ?, updated_at = ? WHERE id = ?
\* (syncedAt || null: an omitted syncedAt stores null).
updateEventSyncStatus(tbl, eventId, status, syncedAt, timestamp) ==
  [i \in DOMAIN tbl |->
     IF tbl[i].id = eventId
     THEN [tbl[i] EXCEPT !.sync_status = status,
                         !.synced_at = syncedAt,
                         !.updated_at = timestamp]
     ELSE tbl[i]]

\* DELETE FROM events WHERE id = ?
deleteEvent(tbl, eventId) == SelectSeq(tbl, LAMBDA e : e.id # eventId)

\* ------------------------------------------------- services/cosmosClient.ts
\* config/azure.ts: what getAzureConfig() can hand over: null, or an
\* AzureConfig whose four strings are each non-empty (TRUE) or empty (FALSE).
AzureConfigs ==
  {NULL} \cup {Some(c) : c \in [endpoint : BOOLEAN, key : BOOLEAN,
                                database : BOOLEAN, container : BOOLEAN]}

\* isAzureConfigValid(config)
isAzureConfigValid(config) ==
  IF config = NULL THEN FALSE
  ELSE /\ config[1].endpoint
       /\ config[1].key
       /\ config[1].database
       /\ config[1].container

\* isCosmosClientInitialized(): isInitialized && azureConfig !== null
isCosmosClientInitialized == isInitialized /\ azureConfig

\* testCosmosConnection(): false without a configuration; otherwise it awaits
\* queryEvents, which catches every failure of the probe and returns [], so
\* the outcome of the probe does not reach the result.
testCosmosConnection(cfg, probeOk) == IF ~cfg THEN FALSE ELSE TRUE

\* String.prototype.toLowerCase on the words the signed text is built from.
toLowerCase(w) ==
  CASE w = "POST" -> "post"
    [] w = "DELETE" -> "delete"
    [] w = "GMT" -> "gmt"
    [] OTHER -> w

\* new Date().toUTCString() at clock reading t: the instant followed by the
\* zone name, as in "Mon, 02 Nov 2026 06:00:00 GMT".
toUTCString(t) == <<t, "GMT">>

\* date.toLowerCase() of such a string.
dateToLowerCase(date) == <<date[1], toLowerCase(date[2])>>

\* generateAuthorizationSignature, lines 59-71: the token stands for the
\* HMAC-SHA256 of the text under the key. The text is verb, resource type
\* and date in lower case and the resource id as given.
generateAuthorizationSignature(verb, resourceType, resourceId, date, masterKey) ==
  [type |-> "master", ver |-> "1.0",
   sig |-> [text |-> <<toLowerCase(verb), toLowerCase(resourceType),
                       resourceId, dateToLowerCase(date)>>,
            key |-> masterKey]]

\* The path of the container: dbs/{database}/colls/{container}
containerLink == <<"dbs", "tic-track", "colls", "events">>

\* A variant of uploadRequest that stamps the header with a clock reading
\* taken after the signature was made.
uploadRequest_HeaderDateReadAgain(event, t) ==
  [method |-> "POST",
   url |-> containerLink \o <<"docs">>,
   authorization |-> generateAuthorizationSignature(
                       "POST", "docs", containerLink, toUTCString(t), "key"),
   date |-> toUTCString(t + 1),
   partitionkey |-> event.event_type,
   body |-> event]

\* uploadEvent, lines 134-165: the request sent at clock reading t.
uploadRequest(event, t) ==
  [method |-> "POST",
   url |-> containerLink \o <<"docs">>,
   authorization |-> generateAuthorizationSignature(
                       "POST", "docs", containerLink, toUTCString(t), "key"),
   date |-> toUTCString(t),
   partitionkey |-> event.event_type,
   body |-> event]

\* queryEvents, lines 204-231: the request sent at clock reading t.
queryRequest(query, t) ==
  [method |-> "POST",
   url |-> containerLink \o <<"docs">>,
   authorization |-> generateAuthorizationSignature(
                       "POST", "docs", containerLink, toUTCString(t), "key"),
   date |-> toUTCString(t),
   partitionkey |-> "cross-partition",
   body |-> query]

\* deleteEventFromCosmos, lines 323-345: the request sent at clock reading t.
deleteRequest(id, eventType, t) ==
  [method |-> "DELETE",
   url |-> containerLink \o <<"docs", id>>,
   authorization |-> generateAuthorizationSignature(
                       "DELETE", "docs", containerLink \o <<"docs", id>>,
                       toUTCString(t), "key"),
   date |-> toUTCString(t),
   partitionkey |-> eventType,
   body |-> NULL]

\* What the container can answer to POST .../docs for a document id: a create
\* (201) when it holds no document of that id, a conflict (409) when it does,
\* an error status, or no answer at all (the exchange failed before the
\* request arrived, or after the document was stored).
ServerResponses(store, id) ==
  (IF id \in Ids(store)
   THEN {[status |-> 409, stored |-> FALSE, delivered |-> TRUE]}
   ELSE {[status |-> 201, stored |-> TRUE, delivered |-> d] : d \in BOOLEAN})
  \cup {[status |-> s, stored |-> FALSE, delivered |-> TRUE] : s \in FailStatuses}
  \cup {[status |-> 0, stored |-> FALSE, delivered |-> FALSE]}

\* uploadEvent sends a request only when configured, initialized and the
\* event type is valid.
uploadSendsRequest(event) ==
  azureConfig /\ isInitialized /\ event.event_type \in ValidEventTypes

\* uploadEvent's return value: true only for a delivered 2xx answer; a thrown
\* fetch error and the errors thrown for 401/403/404/429 are caught and
\* returned as false.
uploadEvent(event, resp) ==
  IF ~uploadSendsRequest(event) THEN FALSE
  ELSE IF ~resp.delivered THEN FALSE
  ELSE IF ~(resp.status >= 200 /\ resp.status <= 299) THEN FALSE
  ELSE TRUE

\* uploadEvent, lines 162-176: the error thrown inside the try block for
\* the answer received, "none" when the block throws nothing.
uploadThrows(resp) ==
  IF ~resp.delivered THEN "fetch failed"
  ELSE IF resp.status \in {401, 403} THEN "Invalid Azure Cosmos DB credentials"
  ELSE IF resp.status = 404 THEN "Database or container not found"
  ELSE IF resp.status = 429 THEN "Rate limit exceeded - please try again later"
  ELSE "none"

\* uploadEvent, lines 185-188: the error that reaches the caller. The catch
\* clause of the function takes every error thrown in the try block and
\* returns false.
uploadRaises(event, resp) == "none"

\* A variant of remoteAfterUpload whose body carries the status the row is
\* about to get instead of the one it was read with.
remoteAfterUpload_BodySynced(store, event, resp) ==
  IF uploadSendsRequest(event) /\ resp.stored
  THEN Append(store, [event EXCEPT !.sync_status = "synced"])
  ELSE store

\* The container after the exchange: the body is the event as it was read
\* into the snapshot (JSON.stringify({...event})).
remoteAfterUpload(store, event, resp) ==
  IF uploadSendsRequest(event) /\ resp.stored
  THEN Append(store, event)
  ELSE store

\* What the container can answer to DELETE .../docs/{id} under the partition
\* key eventType: 204 when that partition holds the document (which is then
\* gone, whether or not the answer arrives), 404 when it does not, an error
\* status, or no answer at all.
DeleteResponses(store, id, eventType) ==
  (IF \E i \in DOMAIN store :
        store[i].id = id /\ store[i].event_type = eventType
   THEN {[status |-> 204, deleted |-> TRUE, delivered |-> d] : d \in BOOLEAN}
   ELSE {[status |-> 404, deleted |-> FALSE, delivered |-> TRUE]})
  \cup {[status |-> s, deleted |-> FALSE, delivered |-> TRUE] : s \in {401, 429, 500}}
  \cup {[status |-> 0, deleted |-> FALSE, delivered |-> FALSE]}

\* A variant of deleteSendsRequest without the guard of lines 312-315.
deleteSendsRequest_NoInitGuard(eventType) ==
  eventType \in ValidEventTypes

\* deleteEventFromCosmos sends a request only when configured, initialized
\* and the event type is valid.
deleteSendsRequest(eventType) ==
  azureConfig /\ isInitialized /\ eventType \in ValidEventTypes

\* A variant of deleteEventFromCosmos that reports a 404 as a failure.
deleteEventFromCosmos_NotFoundFails(eventType, resp) ==
  IF ~deleteSendsRequest(eventType) THEN FALSE
  ELSE IF ~resp.delivered THEN FALSE
  ELSE IF resp.status >= 200 /\ resp.status <= 299 THEN TRUE
  ELSE FALSE

\* deleteEventFromCosmos's return value: true for a delivered 2xx answer and
\* for a 404; a thrown fetch error and the errors thrown for 401/403/429
\* are caught and returned as false, like any other status.
deleteEventFromCosmos(eventType, resp) ==
  IF ~deleteSendsRequest(eventType) THEN FALSE
  ELSE IF ~resp.delivered THEN FALSE
  ELSE IF resp.status >= 200 /\ resp.status <= 299 THEN TRUE
  ELSE IF resp.status = 404 THEN TRUE
  ELSE FALSE

\* The container after the exchange.
remoteAfterDelete(store, id, eventType, resp) ==
  IF deleteSendsRequest(eventType) /\ resp.deleted
  THEN SelectSeq(store, LAMBDA d : ~(d.id = id /\ d.event_type = eventType))
  ELSE store

\* fetchAllEvents(), lines 263-266: a query is sent only when configured
\* and initialized; otherwise [] is returned at once.
fetchSendsRequest == azureConfig /\ isInitialized

\* fetchAllEvents(), lines 268-277: the documents ordered by started_at
\* descending, or [] when queryEvents throws.
fetchAllEvents(store, queryOk) ==
  IF ~queryOk THEN <<>>
  ELSE StableSort(store, StartedDesc)

\* fetchEventsByType(eventType), lines 287-301: the documents of that type
\* ordered by started_at descending, or [] when queryEvents throws.
fetchEventsByType(store, eventType, queryOk) ==
  IF ~queryOk THEN <<>>
  ELSE StableSort(SelectSeq(store, LAMBDA d : d.event_type = eventType),
                  StartedDesc)

\* ---------------------------------------------------- services/eventSync.ts
NoRet == [op |-> "none"]

AlreadyInProgress ==
  [success |-> FALSE, syncedCount |-> 0, errorCount |-> 0,
   message |-> "Sync already in progress"]

NotConfigured ==
  [success |-> FALSE, syncedCount |-> 0, errorCount |-> 0,
   message |-> "Cloud storage not configured"]

NoEventsToSync ==
  [success |-> TRUE, syncedCount |-> 0, errorCount |-> 0,
   message |-> "No events to sync"]

\* A variant of PassSummary that reports success whatever the counts.
PassSummary_AlwaysSuccess(nSynced, nError) ==
  [success |-> TRUE, syncedCount |-> nSynced, errorCount |-> nError,
   message |-> IF nError > 0
               THEN "Synced " \o ToStr(nSynced) \o " events, "
                      \o ToStr(nError) \o " failed"
               ELSE "Synced " \o ToStr(nSynced) \o " events successfully"]

\* The summary returned when the loop completed.
PassSummary(nSynced, nError) ==
  [success |-> (nError = 0), syncedCount |-> nSynced, errorCount |-> nError,
   message |-> IF nError > 0
               THEN "Synced " \o ToStr(nSynced) \o " events, "
                      \o ToStr(nError) \o " failed"
               ELSE "Synced " \o ToStr(nSynced) \o " events successfully"]

\* The result of the outer catch.
SyncFailed(nSynced, nError) ==
  [success |-> FALSE, syncedCount |-> nSynced, errorCount |-> nError,
   message |-> "Sync failed: storage error"]

\* Map.prototype.set: a new key is appended, an existing key keeps its place
\* and gets the new value.
MapSet(m, e) ==
  IF e.id \in Ids(m)
  THEN [i \in DOMAIN m |-> IF m[i].id = e.id THEN e ELSE m[i]]
  ELSE Append(m, e)

MapSetAll(m, es) ==
  LET f[n \in 0..Len(es)] == IF n = 0 THEN m ELSE MapSet(f[n - 1], es[n])
  IN f[Len(es)]

\* A variant of getMergedEvents without the Map: the two lists concatenated.
getMergedEvents_Concat(localEvents, cloudEvents) ==
  StableSort(cloudEvents \o localEvents, StartedDesc)

\* A variant of getMergedEvents that adds the local events first and lets
\* the cloud events override them.
getMergedEvents_CloudWins(localEvents, cloudEvents) ==
  StableSort(MapSetAll(MapSetAll(<<>>, localEvents), cloudEvents), StartedDesc)

\* A variant of getMergedEvents whose comparator is a - b: oldest first.
getMergedEvents_OldestFirst(localEvents, cloudEvents) ==
  StableSort(MapSetAll(MapSetAll(<<>>, cloudEvents), localEvents),
             LAMBDA a, b : StartedDesc(b, a))

\* A variant of getMergedEvents that leaves the cloud events out of the Map.
getMergedEvents_LocalOnly(localEvents, cloudEvents) ==
  StableSort(MapSetAll(<<>>, localEvents), StartedDesc)

\* getMergedEvents, lines 121-140: cloud events first, local events over
\* them, then Array.prototype.sort by started_at, most recent first.
getMergedEvents(localEvents, cloudEvents) ==
  StableSort(MapSetAll(MapSetAll(<<>>, cloudEvents), localEvents), StartedDesc)

\* A variant of SyncState that reports failed events before pending ones.
SyncState_ErrorFirst(pendingEvents, errorEvents) ==
  [isSyncing |-> isSyncing,
   lastSyncAt |-> lastSyncTimestamp,
   pendingCount |-> Len(pendingEvents),
   errorCount |-> Len(errorEvents),
   message |-> IF isSyncing THEN "Syncing..."
               ELSE IF Len(errorEvents) > 0
               THEN ToStr(Len(errorEvents)) \o " event(s) failed to sync"
               ELSE IF Len(pendingEvents) > 0
               THEN ToStr(Len(pendingEvents)) \o " event(s) pending sync"
               ELSE "Up to date"]

\* getSyncState, lines 157-171: the state built from the two lists read and
\* from isSyncing and lastSyncTimestamp as they are at that moment.
SyncState(pendingEvents, errorEvents) ==
  [isSyncing |-> isSyncing,
   lastSyncAt |-> lastSyncTimestamp,
   pendingCount |-> Len(pendingEvents),
   errorCount |-> Len(errorEvents),
   message |-> IF isSyncing THEN "Syncing..."
               ELSE IF Len(pendingEvents) > 0
               THEN ToStr(Len(pendingEvents)) \o " event(s) pending sync"
               ELSE IF Len(errorEvents) > 0
               THEN ToStr(Len(errorEvents)) \o " event(s) failed to sync"
               ELSE "Up to date"]

\* getSyncState when nothing runs between its two reads.
getSyncState ==
  SyncState(getEventsBySyncStatus(events, "pending"),
            getEventsBySyncStatus(events, "error"))

\* What a return of syncPendingEvents hands to its caller: the result itself,
\* or, inside retryFailedSyncs, {success, message} of it.
ReturnValue(c, res) ==
  IF c \in Retriers
  THEN [op |-> "retryFailedSyncs", caller |-> c,
        result |-> [success |-> res.success, message |-> res.message],
        sync |-> res]
  ELSE [op |-> "syncPendingEvents", caller |-> c, result |-> res, sync |-> res]

\* The invocation of caller c is over: its locals are dead.
CallerDone(c) ==
  /\ pc' = [pc EXCEPT ![c] = "idle"]
  /\ errs' = [errs EXCEPT ![c] = <<>>]
  /\ snap' = [snap EXCEPT ![c] = <<>>]
  /\ idx' = [idx EXCEPT ![c] = 0]
  /\ uploaded' = [uploaded EXCEPT ![c] = FALSE]
  /\ syncedCount' = [syncedCount EXCEPT ![c] = 0]
  /\ errorCount' = [errorCount EXCEPT ![c] = 0]

\* A variant of SyncEnter that lacks the isSyncing guard of lines 21-28.
SyncEnter_NoInProgressGuard(c) ==
  IF ~isCosmosClientInitialized
  THEN /\ ret' = ReturnValue(c, NotConfigured)
       /\ CallerDone(c)
       /\ UNCHANGED <<isSyncing, lastSyncTimestamp>>
  ELSE /\ isSyncing' = TRUE
       /\ pc' = [pc EXCEPT ![c] = "read"]
       /\ snap' = [snap EXCEPT ![c] = <<>>]
       /\ UNCHANGED errs
       /\ idx' = [idx EXCEPT ![c] = 0]
       /\ uploaded' = [uploaded EXCEPT ![c] = FALSE]
       /\ syncedCount' = [syncedCount EXCEPT ![c] = 0]
       /\ errorCount' = [errorCount EXCEPT ![c] = 0]
       /\ ret' = NoRet
       /\ UNCHANGED lastSyncTimestamp

\* A variant of SyncEnter that sets isSyncing before the configuration
\* check and returns from that check without clearing it.
SyncEnter_FlagBeforeConfigCheck(c) ==
  IF isSyncing
  THEN /\ ret' = ReturnValue(c, AlreadyInProgress)
       /\ CallerDone(c)
       /\ UNCHANGED <<isSyncing, lastSyncTimestamp>>
  ELSE IF ~isCosmosClientInitialized
  THEN /\ ret' = ReturnValue(c, NotConfigured)
       /\ CallerDone(c)
       /\ isSyncing' = TRUE
       /\ UNCHANGED lastSyncTimestamp
  ELSE /\ isSyncing' = TRUE
       /\ pc' = [pc EXCEPT ![c] = "read"]
       /\ snap' = [snap EXCEPT ![c] = <<>>]
       /\ UNCHANGED errs
       /\ idx' = [idx EXCEPT ![c] = 0]
       /\ uploaded' = [uploaded EXCEPT ![c] = FALSE]
       /\ syncedCount' = [syncedCount EXCEPT ![c] = 0]
       /\ errorCount' = [errorCount EXCEPT ![c] = 0]
       /\ ret' = NoRet
       /\ UNCHANGED lastSyncTimestamp

\* syncPendingEvents, lines 21-39: the two guards, then isSyncing = true.
\* No await separates the guards from the assignment.
SyncEnter(c) ==
  IF isSyncing
  THEN /\ ret' = ReturnValue(c, AlreadyInProgress)
       /\ CallerDone(c)
       /\ UNCHANGED <<isSyncing, lastSyncTimestamp>>
  ELSE IF ~isCosmosClientInitialized
  THEN /\ ret' = ReturnValue(c, NotConfigured)
       /\ CallerDone(c)
       /\ UNCHANGED <<isSyncing, lastSyncTimestamp>>
  ELSE /\ isSyncing' = TRUE
       /\ pc' = [pc EXCEPT ![c] = "read"]
       /\ snap' = [snap EXCEPT ![c] = <<>>]
       /\ UNCHANGED errs
       /\ idx' = [idx EXCEPT ![c] = 0]
       /\ uploaded' = [uploaded EXCEPT ![c] = FALSE]
       /\ syncedCount' = [syncedCount EXCEPT ![c] = 0]
       /\ errorCount' = [errorCount EXCEPT ![c] = 0]
       /\ ret' = NoRet
       /\ UNCHANGED lastSyncTimestamp

\* A variant of PassReturn without the finally clause: the flag stays set.
PassReturn_KeepsFlag(c, res) ==
  /\ ret' = ReturnValue(c, res)
  /\ UNCHANGED isSyncing
  /\ CallerDone(c)

\* A return from inside the try block: the finally clause clears the flag.
PassReturn(c, res) ==
  /\ ret' = ReturnValue(c, res)
  /\ isSyncing' = FALSE
  /\ CallerDone(c)

\* A manual call of syncPendingEvents (the Sync button).
SyncCall(c) ==
  /\ c = "manual"
  /\ pc[c] = "idle"
  /\ SyncEnter(c)
  /\ UNCHANGED <<storeVars, now, remote, clientVars, timerVars>>
  /\ UNCHANGED legacyVars

\* await getEventsBySyncStatus('pending') and the continuation up to the
\* first uploadEvent call, or the 'No events to sync' return.
SyncRead(c) ==
  /\ pc[c] = "read"
  /\ LET pendingEvents == getEventsBySyncStatus(events, "pending")
     IN IF Len(pendingEvents) = 0
        THEN /\ lastSyncTimestamp' = Some(now)
             /\ PassReturn(c, NoEventsToSync)
        ELSE /\ snap' = [snap EXCEPT ![c] = pendingEvents]
             /\ idx' = [idx EXCEPT ![c] = 1]
             /\ pc' = [pc EXCEPT ![c] = "upload"]
             /\ ret' = NoRet
             /\ UNCHANGED <<isSyncing, lastSyncTimestamp, errs, uploaded,
                            syncedCount, errorCount>>
  /\ UNCHANGED <<storeVars, now, remote, clientVars, timerVars>>
  /\ UNCHANGED legacyVars

\* await uploadEvent(event) for the event the loop stands at.
SyncUpload(c) ==
  /\ pc[c] = "upload"
  /\ LET event == snap[c][idx[c]]
     IN \E resp \in ServerResponses(remote, event.id) :
          /\ uploaded' = [uploaded EXCEPT ![c] = uploadEvent(event, resp)]
          /\ remote' = remoteAfterUpload(remote, event, resp)
  /\ pc' = [pc EXCEPT ![c] = "update"]
  /\ ret' = NoRet
  /\ UNCHANGED <<storeVars, now, clientVars, isSyncing, lastSyncTimestamp,
                 timerVars, errs, snap, idx, syncedCount, errorCount>>
  /\ UNCHANGED legacyVars

\* await uploadEvent(event) resolving to true.
SyncUploadOk(c) == SyncUpload(c) /\ uploaded'[c]

\* A variant of LoopAdvance whose loop runs over a live list: the rows that
\* are pending by now and not yet in the list are added to it.
LoopAdvance_LiveList(c, nSynced, nError) ==
  LET live == snap[c] \o SelectSeq(events', LAMBDA e :
                           e.sync_status = "pending" /\ e.id \notin Ids(snap[c]))
  IN IF idx[c] < Len(live)
     THEN /\ idx' = [idx EXCEPT ![c] = idx[c] + 1]
          /\ pc' = [pc EXCEPT ![c] = "upload"]
          /\ syncedCount' = [syncedCount EXCEPT ![c] = nSynced]
          /\ errorCount' = [errorCount EXCEPT ![c] = nError]
          /\ uploaded' = [uploaded EXCEPT ![c] = FALSE]
          /\ ret' = NoRet
          /\ snap' = [snap EXCEPT ![c] = live]
          /\ UNCHANGED <<errs, isSyncing, lastSyncTimestamp>>
     ELSE /\ lastSyncTimestamp' = Some(now)
          /\ PassReturn(c, PassSummary(nSynced, nError))

\* The loop moves to the next event, or, after the last one, the pass sets
\* lastSyncTimestamp and returns its summary.
LoopAdvance(c, nSynced, nError) ==
  IF idx[c] < Len(snap[c])
  THEN /\ idx' = [idx EXCEPT ![c] = idx[c] + 1]
       /\ pc' = [pc EXCEPT ![c] = "upload"]
       /\ syncedCount' = [syncedCount EXCEPT ![c] = nSynced]
       /\ errorCount' = [errorCount EXCEPT ![c] = nError]
       /\ uploaded' = [uploaded EXCEPT ![c] = FALSE]
       /\ ret' = NoRet
       /\ UNCHANGED <<errs, snap, isSyncing, lastSyncTimestamp>>
  ELSE /\ lastSyncTimestamp' = Some(now)
       /\ PassReturn(c, PassSummary(nSynced, nError))

\* A variant of SyncUpdate that leaves the loop at the first failed upload.
SyncUpdate_BreakOnFailure(c) ==
  /\ pc[c] = "update"
  /\ LET event == snap[c][idx[c]]
     IN IF uploaded[c]
        THEN /\ events' = updateEventSyncStatus(events, event.id, "synced",
                                                Some(now), now)
             /\ LoopAdvance(c, syncedCount[c] + 1, errorCount[c])
        ELSE /\ events' = updateEventSyncStatus(events, event.id, "error",
                                                NULL, now)
             /\ lastSyncTimestamp' = Some(now)
             /\ PassReturn(c, PassSummary(syncedCount[c], errorCount[c] + 1))
  /\ UNCHANGED <<nextId, now, remote, clientVars, timerVars>>
  /\ UNCHANGED legacyVars

\* A variant of SyncUpdate that passes no syncedAt with 'synced'.
SyncUpdate_NoSyncedAt(c) ==
  /\ pc[c] = "update"
  /\ LET event == snap[c][idx[c]]
     IN IF uploaded[c]
        THEN /\ events' = updateEventSyncStatus(events, event.id, "synced",
                                                NULL, now)
             /\ LoopAdvance(c, syncedCount[c] + 1, errorCount[c])
        ELSE /\ events' = updateEventSyncStatus(events, event.id, "error",
                                                NULL, now)
             /\ LoopAdvance(c, syncedCount[c], errorCount[c] + 1)
  /\ UNCHANGED <<nextId, now, remote, clientVars, timerVars>>
  /\ UNCHANGED legacyVars

\* A variant of SyncUpdate whose write puts the snapshot row back when the
\* table no longer holds the id (INSERT OR REPLACE).
SyncUpdate_RestoresRow(c) ==
  /\ pc[c] = "update"
  /\ LET event == snap[c][idx[c]]
         tbl == IF event.id \in Ids(events) THEN events
                ELSE Append(events, event)
     IN IF uploaded[c]
        THEN /\ events' = updateEventSyncStatus(tbl, event.id, "synced",
                                                Some(now), now)
             /\ LoopAdvance(c, syncedCount[c] + 1, errorCount[c])
        ELSE /\ events' = updateEventSyncStatus(tbl, event.id, "error",
                                                NULL, now)
             /\ LoopAdvance(c, syncedCount[c], errorCount[c] + 1)
  /\ UNCHANGED <<nextId, now, remote, clientVars, timerVars>>
  /\ UNCHANGED legacyVars

\* A variant of SyncUpdate that passes the current time as synced_at for a
\* failed upload too.
SyncUpdate_StampsFailures(c) ==
  /\ pc[c] = "update"
  /\ LET event == snap[c][idx[c]]
     IN IF uploaded[c]
        THEN /\ events' = updateEventSyncStatus(events, event.id, "synced",
                                                Some(now), now)
             /\ LoopAdvance(c, syncedCount[c] + 1, errorCount[c])
        ELSE /\ events' = updateEventSyncStatus(events, event.id, "error",
                                                Some(now), now)
             /\ LoopAdvance(c, syncedCount[c], errorCount[c] + 1)
  /\ UNCHANGED <<nextId, now, remote, clientVars, timerVars>>
  /\ UNCHANGED legacyVars

\* await updateEventSyncStatus(event.id, 'synced' | 'error') succeeded.
SyncUpdate(c) ==
  /\ pc[c] = "update"
  /\ LET event == snap[c][idx[c]]
     IN IF uploaded[c]
        THEN /\ events' = updateEventSyncStatus(events, event.id, "synced",
                                                Some(now), now)
             /\ LoopAdvance(c, syncedCount[c] + 1, errorCount[c])
        ELSE /\ events' = updateEventSyncStatus(events, event.id, "error",
                                                NULL, now)
             /\ LoopAdvance(c, syncedCount[c], errorCount[c] + 1)
  /\ UNCHANGED <<nextId, now, remote, clientVars, timerVars>>
  /\ UNCHANGED legacyVars

\* await updateEventSyncStatus(...) inside the inner try rejected (the SQLite
\* statement failed, the table is unchanged): control enters the inner catch,
\* which awaits updateEventSyncStatus(event.id, 'error').
SyncUpdateThrows(c) ==
  /\ pc[c] = "update"
  /\ pc' = [pc EXCEPT ![c] = "catch"]
  /\ ret' = NoRet
  /\ UNCHANGED <<storeVars, now, remote, clientVars, isSyncing,
                 lastSyncTimestamp, timerVars, errs, snap, idx, uploaded,
                 syncedCount, errorCount>>
  /\ UNCHANGED legacyVars

\* The inner catch's updateEventSyncStatus(event.id, 'error') succeeded.
SyncCatchUpdate(c) ==
  /\ pc[c] = "catch"
  /\ events' = updateEventSyncStatus(events, snap[c][idx[c]].id, "error",
                                     NULL, now)
  /\ LoopAdvance(c, syncedCount[c], errorCount[c] + 1)
  /\ UNCHANGED <<nextId, now, remote, clientVars, timerVars>>
  /\ UNCHANGED legacyVars

\* A variant of SyncCatchThrows without the finally clause of lines 98-100:
\* the outer catch returns and the flag stays as it is.
SyncCatchThrows_NoFinally(c) ==
  /\ pc[c] = "catch"
  /\ ret' = ReturnValue(c, SyncFailed(syncedCount[c], errorCount[c]))
  /\ CallerDone(c)
  /\ UNCHANGED <<storeVars, now, remote, clientVars, isSyncing,
                 lastSyncTimestamp, timerVars>>
  /\ UNCHANGED legacyVars

\* A variant of SyncCatchThrows without the outer catch of lines 90-97: the
\* finally clause runs and the error leaves syncPendingEvents.
SyncCatchThrows_NoOuterCatch(c) ==
  /\ pc[c] = "catch"
  /\ isSyncing' = FALSE
  /\ ret' = [op |-> "syncPendingEvents", caller |-> c, result |-> NoRet,
             sync |-> NoRet, thrown |-> "storage error"]
  /\ CallerDone(c)
  /\ UNCHANGED <<storeVars, now, remote, clientVars, lastSyncTimestamp,
                 timerVars>>
  /\ UNCHANGED legacyVars

\* The inner catch's update rejected too: the outer catch returns 'Sync
\* failed', then the finally clause runs.
SyncCatchThrows(c) ==
  /\ pc[c] = "catch"
  /\ PassReturn(c, SyncFailed(syncedCount[c], errorCount[c]))
  /\ UNCHANGED <<storeVars, now, remote, clientVars, lastSyncTimestamp,
                 timerVars>>
  /\ UNCHANGED legacyVars

\* A variant of RetryStart without the early return of lines 194-199: with
\* no error event it goes on to call syncPendingEvents.
RetryStart_NoEarlyReturn(c) ==
  /\ c \in Retriers
  /\ pc[c] = "idle"
  /\ LET errorEvents == getEventsBySyncStatus(events, "error")
     IN /\ errs' = [errs EXCEPT ![c] = errorEvents]
        /\ idx' = [idx EXCEPT ![c] = 1]
        /\ pc' = [pc EXCEPT ![c] = IF Len(errorEvents) = 0
                                   THEN "call" ELSE "flip"]
        /\ ret' = NoRet
        /\ UNCHANGED <<snap, uploaded, syncedCount, errorCount>>
  /\ UNCHANGED <<storeVars, now, remote, clientVars, isSyncing,
                 lastSyncTimestamp, timerVars>>
  /\ UNCHANGED legacyVars

\* retryFailedSyncs, lines 192-199: await getEventsBySyncStatus('error').
RetryStart(c) ==
  /\ c \in Retriers
  /\ pc[c] = "idle"
  /\ LET errorEvents == getEventsBySyncStatus(events, "error")
     IN IF Len(errorEvents) = 0
        THEN /\ ret' = [op |-> "retryFailedSyncs", caller |-> c,
                        result |-> [success |-> TRUE,
                                    message |-> "No failed events to retry"],
                        sync |-> NoRet]
             /\ UNCHANGED callerVars
        ELSE /\ errs' = [errs EXCEPT ![c] = errorEvents]
             /\ idx' = [idx EXCEPT ![c] = 1]
             /\ pc' = [pc EXCEPT ![c] = "flip"]
             /\ ret' = NoRet
             /\ UNCHANGED <<snap, uploaded, syncedCount, errorCount>>
  /\ UNCHANGED <<storeVars, now, remote, clientVars, isSyncing,
                 lastSyncTimestamp, timerVars>>
  /\ UNCHANGED legacyVars

\* A variant of RetryFlip that leaves the loop after the first event.
RetryFlip_OnlyFirst(c) ==
  /\ pc[c] = "flip"
  /\ events' = updateEventSyncStatus(events, errs[c][idx[c]].id, "pending",
                                     NULL, now)
  /\ pc' = [pc EXCEPT ![c] = "call"]
  /\ UNCHANGED idx
  /\ ret' = NoRet
  /\ UNCHANGED <<nextId, now, remote, clientVars, isSyncing, lastSyncTimestamp,
                 timerVars, errs, snap, uploaded, syncedCount, errorCount>>
  /\ UNCHANGED legacyVars

\* retryFailedSyncs, lines 202-204: one updateEventSyncStatus(id, 'pending').
RetryFlip(c) ==
  /\ pc[c] = "flip"
  /\ events' = updateEventSyncStatus(events, errs[c][idx[c]].id, "pending",
                                     NULL, now)
  /\ IF idx[c] < Len(errs[c])
     THEN /\ idx' = [idx EXCEPT ![c] = idx[c] + 1]
          /\ UNCHANGED pc
     ELSE /\ pc' = [pc EXCEPT ![c] = "call"]
          /\ UNCHANGED idx
  /\ ret' = NoRet
  /\ UNCHANGED <<nextId, now, remote, clientVars, isSyncing, lastSyncTimestamp,
                 timerVars, errs, snap, uploaded, syncedCount, errorCount>>
  /\ UNCHANGED legacyVars

\* retryFailedSyncs, line 207: the call of syncPendingEvents.
RetryCall(c) ==
  /\ pc[c] = "call"
  /\ SyncEnter(c)
  /\ UNCHANGED <<storeVars, now, remote, clientVars, timerVars>>
  /\ UNCHANGED legacyVars

\* A variant of StartAutoSync without the `if (syncInterval) return` guard.
StartAutoSync_NoGuard ==
  /\ timers <= 2
  /\ syncInterval' = TRUE
  /\ timers' = timers + 1
  /\ ret' = NoRet
  /\ UNCHANGED <<storeVars, now, remote, clientVars, isSyncing,
                 lastSyncTimestamp, callerVars>>
  /\ UNCHANGED legacyVars

\* The pass begun by the timer callback is between two of its awaits.
InPassAuto == pc["auto"] \in {"read", "upload", "update", "catch"}

\* startAutoSync: returns at once when syncInterval holds a handle, otherwise
\* setInterval creates a timer and its handle is stored.
StartAutoSync ==
  /\ IF syncInterval
     THEN UNCHANGED timerVars
     ELSE /\ syncInterval' = TRUE
          /\ timers' = timers + 1
  /\ ret' = NoRet
  /\ UNCHANGED <<storeVars, now, remote, clientVars, isSyncing,
                 lastSyncTimestamp, callerVars>>
  /\ UNCHANGED legacyVars

\* A variant of StopAutoSync that also abandons the pass the timer started:
\* the pass's position is dropped and the flag cleared.
StopAutoSync_CancelsPass ==
  /\ IF syncInterval
     THEN /\ timers' = timers - 1
          /\ syncInterval' = FALSE
     ELSE UNCHANGED timerVars
  /\ ret' = NoRet
  /\ pc' = [pc EXCEPT !["auto"] = "idle"]
  /\ isSyncing' = IF InPassAuto THEN FALSE ELSE isSyncing
  /\ UNCHANGED <<storeVars, now, remote, clientVars, lastSyncTimestamp,
                 errs, snap, idx, uploaded, syncedCount, errorCount>>
  /\ UNCHANGED legacyVars

\* stopAutoSync: clearInterval on the stored handle, if any, then null.
StopAutoSync ==
  /\ IF syncInterval
     THEN /\ timers' = timers - 1
          /\ syncInterval' = FALSE
     ELSE UNCHANGED timerVars
  /\ ret' = NoRet
  /\ UNCHANGED <<storeVars, now, remote, clientVars, isSyncing,
                 lastSyncTimestamp, callerVars>>
  /\ UNCHANGED legacyVars

\* A variant of AutoSyncTick that calls syncPendingEvents on every tick.
AutoSyncTick_NoGuard ==
  /\ timers > 0
  /\ SyncEnter("auto")
  /\ UNCHANGED <<storeVars, now, remote, clientVars, timerVars>>
  /\ UNCHANGED legacyVars

\* The setInterval callback of startAutoSync.
AutoSyncTick ==
  /\ timers > 0
  /\ IF ~isSyncing /\ isCosmosClientInitialized
     THEN SyncEnter("auto")
     ELSE /\ ret' = NoRet
          /\ UNCHANGED <<isSyncing, lastSyncTimestamp, callerVars>>
  /\ UNCHANGED <<storeVars, now, remote, clientVars, timerVars>>
  /\ UNCHANGED legacyVars

\* What getMergedEvents returns, with what its two awaits yielded.
MergedResult(localEvents, cloudEvents, fetch) ==
  [op |-> "getMergedEvents", caller |-> "reader",
   result |-> getMergedEvents(localEvents, cloudEvents),
   localEvents |-> localEvents, cloudEvents |-> cloudEvents, fetch |-> fetch]

\* getMergedEvents, lines 109-117: await getAllEvents(), then the call of
\* fetchAllEvents when the client is initialized; without a fetch the merge
\* and the return follow at once.
MergeRead(c) ==
  /\ c = "reader"
  /\ pc[c] = "idle"
  /\ LET localEvents == getAllEvents(events)
     IN IF isCosmosClientInitialized /\ fetchSendsRequest
        THEN /\ snap' = [snap EXCEPT ![c] = localEvents]
             /\ pc' = [pc EXCEPT ![c] = "fetch"]
             /\ ret' = NoRet
        ELSE /\ ret' = MergedResult(localEvents, <<>>, "skipped")
             /\ UNCHANGED <<pc, snap>>
  /\ UNCHANGED <<storeVars, now, remote, clientVars, isSyncing,
                 lastSyncTimestamp, timerVars, errs, idx, uploaded,
                 syncedCount, errorCount>>
  /\ UNCHANGED legacyVars

\* getMergedEvents, lines 114-140: fetchAllEvents resolves, then the merge.
MergeFetch(c) ==
  /\ c = "reader"
  /\ pc[c] = "fetch"
  /\ \E queryOk \in BOOLEAN :
       ret' = MergedResult(snap[c], fetchAllEvents(remote, queryOk),
                           IF queryOk THEN "ok" ELSE "failed")
  /\ CallerDone(c)
  /\ UNCHANGED <<storeVars, now, remote, clientVars, isSyncing,
                 lastSyncTimestamp, timerVars>>
  /\ UNCHANGED legacyVars

\* getSyncState, line 154: await getEventsBySyncStatus('pending').
StateReadPending(c) ==
  /\ c = "viewer"
  /\ pc[c] = "idle"
  /\ snap' = [snap EXCEPT ![c] = getEventsBySyncStatus(events, "pending")]
  /\ pc' = [pc EXCEPT ![c] = "errors"]
  /\ ret' = NoRet
  /\ UNCHANGED <<storeVars, now, remote, clientVars, isSyncing,
                 lastSyncTimestamp, timerVars, errs, idx, uploaded,
                 syncedCount, errorCount>>
  /\ UNCHANGED legacyVars

\* getSyncState, lines 155-171: await getEventsBySyncStatus('error'), then
\* the message and the return.
StateReadErrors(c) ==
  /\ c = "viewer"
  /\ pc[c] = "errors"
  /\ ret' = [op |-> "getSyncState", caller |-> c,
             result |-> SyncState(snap[c],
                                  getEventsBySyncStatus(events, "error"))]
  /\ CallerDone(c)
  /\ UNCHANGED <<storeVars, now, remote, clientVars, isSyncing,
                 lastSyncTimestamp, timerVars>>
  /\ UNCHANGED legacyVars

\* ------------------------------------------------------------ environment
\* The create path: createEvent with a fresh uuid.
CreateEvent(eventType, startedAt) ==
  /\ events' = Append(events, createEvent(nextId, eventType, startedAt, now))
  /\ nextId' = nextId + 1
  /\ ret' = [op |-> "createEvent",
             result |-> createEvent(nextId, eventType, startedAt, now)]
  /\ UNCHANGED <<now, remote, clientVars, isSyncing, lastSyncTimestamp,
                 timerVars, callerVars>>
  /\ UNCHANGED legacyVars

\* deleteEvent(eventId) on the local table; the id may be absent. The return
\* records the argument and whether the previous call had the same one.
DeleteEvent(eventId) ==
  /\ events' = deleteEvent(events, eventId)
  /\ ret' = [op |-> "deleteEvent", id |-> eventId, result |-> "ok",
             repeated |-> ret.op = "deleteEvent" /\ ret.id = eventId]
  /\ UNCHANGED <<nextId, now, remote, clientVars, isSyncing,
                 lastSyncTimestamp, timerVars, callerVars>>
  /\ UNCHANGED legacyVars

\* A variant of UpdateEventSyncStatus that also rewrites created_at.
UpdateEventSyncStatus_TouchesCreatedAt(eventId, status, syncedAt) ==
  /\ \E t \in {now, Min({now + 1, MaxTime})} :
       /\ now' = t
       /\ events' = [i \in DOMAIN events |->
                       IF events[i].id = eventId
                       THEN [events[i] EXCEPT !.sync_status = status,
                                              !.synced_at = syncedAt,
                                              !.updated_at = t,
                                              !.created_at = t]
                       ELSE events[i]]
  /\ ret' = [op |-> "updateEventSyncStatus", id |-> eventId,
             status |-> status, synced_at |-> syncedAt,
             repeated |-> /\ ret.op = "updateEventSyncStatus"
                          /\ ret.id = eventId
                          /\ ret.status = status
                          /\ ret.synced_at = syncedAt]
  /\ UNCHANGED <<nextId, remote, clientVars, isSyncing, lastSyncTimestamp,
                 timerVars, callerVars>>
  /\ UNCHANGED legacyVars

\* updateEventSyncStatus(eventId, status, syncedAt?) called on the local
\* table; the id may be absent. new Date() is read when the statement runs,
\* at or after the clock reading of the previous step. The return records
\* the arguments and whether the previous call had the same ones.
UpdateEventSyncStatus(eventId, status, syncedAt) ==
  /\ \E t \in {now, Min({now + 1, MaxTime})} :
       /\ now' = t
       /\ events' = updateEventSyncStatus(events, eventId, status, syncedAt, t)
  /\ ret' = [op |-> "updateEventSyncStatus", id |-> eventId,
             status |-> status, synced_at |-> syncedAt,
             repeated |-> /\ ret.op = "updateEventSyncStatus"
                          /\ ret.id = eventId
                          /\ ret.status = status
                          /\ ret.synced_at = syncedAt]
  /\ UNCHANGED <<nextId, remote, clientVars, isSyncing, lastSyncTimestamp,
                 timerVars, callerVars>>
  /\ UNCHANGED legacyVars

\* deleteEventFromCosmos(id, eventType); the return records the arguments,
\* whether a request went out, the status the container answered with, and
\* whether the previous call had the same arguments and reported success.
DeleteEventFromCosmos(id, eventType) ==
  /\ \E resp \in DeleteResponses(remote, id, eventType) :
       /\ remote' = remoteAfterDelete(remote, id, eventType, resp)
       /\ ret' = [op |-> "deleteEventFromCosmos", id |-> id,
                  eventType |-> eventType,
                  sent |-> deleteSendsRequest(eventType),
                  status |-> IF deleteSendsRequest(eventType) /\ resp.delivered
                             THEN resp.status ELSE 0,
                  result |-> deleteEventFromCosmos(eventType, resp),
                  request |-> IF deleteSendsRequest(eventType)
                              THEN Some(deleteRequest(id, eventType, now))
                              ELSE NULL,
                  repeated |-> /\ ret.op = "deleteEventFromCosmos"
                               /\ ret.id = id
                               /\ ret.eventType = eventType
                               /\ ret.result]
  /\ UNCHANGED <<storeVars, now, clientVars, isSyncing, lastSyncTimestamp,
                 timerVars, callerVars>>
  /\ UNCHANGED legacyVars

\* A variant of InitCosmosClient whose invalid-configuration branch leaves
\* isInitialized as it was.
InitCosmosClient_KeepsInitialized(valid, probeOk) ==
  /\ IF ~valid
     THEN UNCHANGED <<isInitialized, azureConfig>>
     ELSE /\ azureConfig' = TRUE
          /\ isInitialized' = testCosmosConnection(TRUE, probeOk)
  /\ ret' = [op |-> "initCosmosClient", valid |-> valid, probeOk |-> probeOk,
             result |-> IF valid THEN isInitialized' ELSE FALSE]
  /\ UNCHANGED <<storeVars, now, remote, isSyncing, lastSyncTimestamp,
                 timerVars, callerVars>>
  /\ UNCHANGED legacyVars

\* initCosmosClient() with the configuration getAzureConfig() yields now.
InitCosmosClient(valid, probeOk) ==
  /\ IF ~valid
     THEN /\ isInitialized' = FALSE
          /\ UNCHANGED azureConfig
     ELSE /\ azureConfig' = TRUE
          /\ isInitialized' = testCosmosConnection(TRUE, probeOk)
  /\ ret' = [op |-> "initCosmosClient", valid |-> valid, probeOk |-> probeOk,
             result |-> isInitialized']
  /\ UNCHANGED <<storeVars, now, remote, isSyncing, lastSyncTimestamp,
                 timerVars, callerVars>>
  /\ UNCHANGED legacyVars

\* uploadEvent(event) called on its own for a local row; the return records
\* the status the container answered with (0: no answer, or no request),
\* the error that reached the caller and the boolean returned.
UploadEvent(event) ==
  /\ \E resp \in ServerResponses(remote, event.id) :
       /\ remote' = remoteAfterUpload(remote, event, resp)
       /\ ret' = [op |-> "uploadEvent", id |-> event.id,
                  sent |-> uploadSendsRequest(event),
                  status |-> IF uploadSendsRequest(event) /\ resp.delivered
                             THEN resp.status ELSE 0,
                  raised |-> IF uploadSendsRequest(event)
                             THEN uploadRaises(event, resp) ELSE "none",
                  request |-> IF uploadSendsRequest(event)
                              THEN Some(uploadRequest(event, now))
                              ELSE NULL,
                  result |-> uploadEvent(event, resp)]
  /\ UNCHANGED <<storeVars, now, clientVars, isSyncing, lastSyncTimestamp,
                 timerVars, callerVars>>
  /\ UNCHANGED legacyVars

\* fetchAllEvents() called on its own; the return records the documents and
\* the query request, if one went out.
FetchAllEvents ==
  /\ \E queryOk \in BOOLEAN :
       ret' = [op |-> "fetchAllEvents",
               sent |-> fetchSendsRequest,
               request |-> IF fetchSendsRequest
                           THEN Some(queryRequest("ORDER BY started_at DESC", now))
                           ELSE NULL,
               result |-> IF fetchSendsRequest
                          THEN fetchAllEvents(remote, queryOk) ELSE <<>>]
  /\ UNCHANGED <<storeVars, now, remote, clientVars, isSyncing,
                 lastSyncTimestamp, timerVars, callerVars>>
  /\ UNCHANGED legacyVars

\* fetchEventsByType(eventType) called on its own; fetchSendsRequest is the
\* guard of lines 283-286, the same condition as in fetchAllEvents.
FetchEventsByType(eventType) ==
  /\ \E queryOk \in BOOLEAN :
       ret' = [op |-> "fetchEventsByType", eventType |-> eventType,
               sent |-> fetchSendsRequest,
               request |-> IF fetchSendsRequest
                           THEN Some(queryRequest(
                                  "WHERE event_type = @eventType ORDER BY started_at DESC",
                                  now))
                           ELSE NULL,
               result |-> IF fetchSendsRequest
                          THEN fetchEventsByType(remote, eventType, queryOk)
                          ELSE <<>>]
  /\ UNCHANGED <<storeVars, now, remote, clientVars, isSyncing,
                 lastSyncTimestamp, timerVars, callerVars>>
  /\ UNCHANGED legacyVars

\* EventLogger.handleSave with the start picker at startDate and the end
\* date endDate (null while the event was not ended): the row createEvent
\* saves, with the ended_at and duration_seconds handed to it.
HandleSave(eventType, startDate, endDate) ==
  /\ LET started_at == toISOString(startDate)
         ended_at == IF endDate = NULL THEN NULL
                     ELSE Some(toISOString(endDate[1]))
         duration_seconds ==
           IF ended_at = NULL THEN NULL
           ELSE Some(calculateDuration(started_at, ended_at[1]))
         row == createEvent(nextId, eventType, started_at, now)
         saved == [f \in DOMAIN row \cup {"ended_at", "duration_seconds"} |->
                     IF f = "ended_at" THEN ended_at
                     ELSE IF f = "duration_seconds" THEN duration_seconds
                     ELSE row[f]]
     IN /\ events' = Append(events, saved)
        /\ ret' = [op |-> "handleSave", result |-> saved]
  /\ nextId' = nextId + 1
  /\ UNCHANGED <<now, remote, clientVars, isSyncing, lastSyncTimestamp,
                 timerVars, callerVars>>
  /\ UNCHANGED legacyVars

\* initCosmosClient() when getAzureConfig() hands over config.
InitFromConfig(config, probeOk) ==
  InitCosmosClient(isAzureConfigValid(config), probeOk)

\* The wall clock advances.
Tick ==
  /\ now < MaxTime
  /\ now' = now + 1
  /\ ret' = NoRet
  /\ UNCHANGED <<storeVars, remote, clientVars, isSyncing, lastSyncTimestamp,
                 timerVars, callerVars>>
  /\ UNCHANGED legacyVars

\* ------------------------------------------- services/SyncService.ts
\* The two collections of the legacy database.
Collections == {"tics", "emotions"}

\* No SyncService call is in flight.
LegacyIdle == [call |-> "none", collection |-> "none", pc |-> "idle",
               unsynced |-> <<>>]

\* The method that syncs a collection.
SyncMethod(collection) ==
  IF collection = "tics" THEN "syncTics" ELSE "syncEmotions"

\* query(Q.where('synced', false)).fetch(): the ids of the records of the
\* collection whose flag is false, in table order.
fetchUnsynced(db, collection) ==
  LET rows == SelectSeq(db[collection], LAMBDA r : ~r.synced)
  IN [i \in DOMAIN rows |-> rows[i].id]

\* A variant of markSynced that updates every record of the collection
\* whose flag is false when the writer runs.
markSynced_AllUnsynced(db, collection, batch) ==
  [db EXCEPT ![collection] =
     [i \in DOMAIN db[collection] |->
        [db[collection][i] EXCEPT !.synced = TRUE]]]

\* database.write, lines 30-36 and 71-77: update(synced = true) on each
\* record object of the batch.
markSynced(db, collection, batch) ==
  [db EXCEPT ![collection] =
     [i \in DOMAIN db[collection] |->
        IF \E k \in DOMAIN batch : batch[k] = db[collection][i].id
        THEN [db[collection][i] EXCEPT !.synced = TRUE]
        ELSE db[collection][i]]]

\* The frame of every SyncService and AzureStorageService step.
LegacyFrame ==
  UNCHANGED <<storeVars, now, remote, clientVars, isSyncing,
              lastSyncTimestamp, timerVars, callerVars>>

\* A screen saves a record: created with synced: false.
CreateRecord(collection) ==
  /\ database' = [database EXCEPT ![collection] =
                    Append(@, [id |-> Len(@) + 1, synced |-> FALSE])]
  /\ ret' = [op |-> "createRecord", collection |-> collection]
  /\ UNCHANGED <<blobServiceClient, blobs, legacy>>
  /\ LegacyFrame

\* AzureStorageService.setConnectionString.
SetConnectionString ==
  /\ blobServiceClient' = TRUE
  /\ ret' = [op |-> "setConnectionString"]
  /\ UNCHANGED <<database, blobs, legacy>>
  /\ LegacyFrame

\* The method returns (thrown = "none") or rejects.
LegacyReturn(thrown, marked) ==
  /\ legacy' = LegacyIdle
  /\ ret' = [op |-> legacy.call, collection |-> legacy.collection,
             thrown |-> thrown, marked |-> marked]

\* syncTics / syncEmotions resolved: syncAll goes on from syncTics to
\* syncEmotions, every other call returns.
CollectionDone(marked) ==
  IF legacy.call = "syncAll" /\ legacy.collection = "tics"
  THEN /\ legacy' = [legacy EXCEPT !.collection = "emotions",
                                   !.pc = "read", !.unsynced = <<>>]
       /\ ret' = NoRet
  ELSE LegacyReturn("none", marked)

\* syncAll, lines 86-94: nothing is done without a blob client; otherwise
\* syncTics is called.
SyncAllCall ==
  /\ legacy.pc = "idle"
  /\ IF ~blobServiceClient
     THEN /\ ret' = [op |-> "syncAll", collection |-> "none",
                     thrown |-> "none", marked |-> <<>>]
          /\ UNCHANGED legacy
     ELSE /\ legacy' = [call |-> "syncAll", collection |-> "tics",
                        pc |-> "read", unsynced |-> <<>>]
          /\ ret' = NoRet
  /\ UNCHANGED <<database, blobServiceClient, blobs>>
  /\ LegacyFrame

\* syncTics or syncEmotions called on its own.
SyncCollectionCall(collection) ==
  /\ legacy.pc = "idle"
  /\ legacy' = [call |-> SyncMethod(collection), collection |-> collection,
                pc |-> "read", unsynced |-> <<>>]
  /\ ret' = NoRet
  /\ UNCHANGED <<database, blobServiceClient, blobs>>
  /\ LegacyFrame

\* Lines 8-26: the fetch resolves; an empty batch returns; otherwise
\* uploadTics / uploadEmotions is called, and uploadData (lines 47-50)
\* returns null at once when there is no blob client, so that nothing is
\* marked.
SyncFetch ==
  /\ legacy.pc = "read"
  /\ LET batch == fetchUnsynced(database, legacy.collection)
     IN IF batch = <<>> \/ ~blobServiceClient
        THEN CollectionDone(<<>>)
        ELSE /\ legacy' = [legacy EXCEPT !.pc = "upload", !.unsynced = batch]
             /\ ret' = NoRet
  /\ UNCHANGED <<database, blobServiceClient, blobs>>
  /\ LegacyFrame

\* uploadData, lines 52-69: the upload resolves with the blob's url, or it
\* throws (the container having taken the blob or not) and syncTics /
\* syncEmotions and syncAll reject.
SyncUploadData ==
  /\ legacy.pc = "upload"
  /\ \E url \in BOOLEAN, stored \in BOOLEAN :
       /\ url => stored
       /\ blobs' = IF stored
                   THEN Append(blobs, [fileName |-> legacy.collection,
                                       data |-> legacy.unsynced])
                   ELSE blobs
       /\ IF url
          THEN /\ legacy' = [legacy EXCEPT !.pc = "write"]
               /\ ret' = NoRet
          ELSE LegacyReturn("upload failed", <<>>)
  /\ UNCHANGED <<database, blobServiceClient>>
  /\ LegacyFrame

\* Lines 28-38: uploadUrl is set; the writer marks the batch.
SyncMark ==
  /\ legacy.pc = "write"
  /\ database' = markSynced(database, legacy.collection, legacy.unsynced)
  /\ CollectionDone(legacy.unsynced)
  /\ UNCHANGED <<blobServiceClient, blobs>>
  /\ LegacyFrame

Init ==
  /\ events = <<>>
  /\ nextId = 1
  /\ now = 1
  /\ remote = <<>>
  /\ azureConfig = FALSE
  /\ isInitialized = FALSE
  /\ isSyncing = FALSE
  /\ lastSyncTimestamp = NULL
  /\ syncInterval = FALSE
  /\ timers = 0
  /\ pc = [c \in Callers |-> "idle"]
  /\ errs = [c \in Callers |-> <<>>]
  /\ snap = [c \in Callers |-> <<>>]
  /\ idx = [c \in Callers |-> 0]
  /\ uploaded = [c \in Callers |-> FALSE]
  /\ syncedCount = [c \in Callers |-> 0]
  /\ errorCount = [c \in Callers |-> 0]
  /\ ret = NoRet
  /\ database = [collection \in Collections |-> <<>>]
  /\ blobServiceClient = FALSE
  /\ blobs = <<>>
  /\ legacy = LegacyIdle

\* One step of a pass of syncPendingEvents run for caller c.
PassStep(c) == SyncRead(c) \/ SyncUpload(c) \/ SyncUpdate(c)

\* One step of retryFailedSyncs up to its call of syncPendingEvents.
RetryStep(c) == RetryStart(c) \/ RetryFlip(c) \/ RetryCall(c)

\* One step of an invocation of caller c.
CallerStep(c) == SyncCall(c) \/ PassStep(c) \/ RetryStep(c)

\* A local storage failure while a pass records an upload outcome.
StorageFault(c) ==
  \/ SyncUpdateThrows(c)
  \/ SyncCatchUpdate(c)
  \/ SyncCatchThrows(c)

Timer == StartAutoSync \/ StopAutoSync \/ AutoSyncTick

\* The orchestrator under every interleaving of create, (re)initialisation,
\* a manual sync, a retry and the auto-sync timer.  Local storage calls
\* succeed and all stamps are taken within one reading of the clock.
Next ==
  \/ nextId <= MaxEvents /\ CreateEvent("tic", 1)
  \/ \E valid \in BOOLEAN : InitCosmosClient(valid, TRUE)
  \/ Timer
  \/ \E c \in {"manual", "auto", "retry1"} : CallerStep(c)

Spec == Init /\ [][Next]_vars

\* Create, delete, (re)initialisation, a manual sync and a retry.
NextDelete ==
  \/ nextId <= MaxEvents /\ CreateEvent("tic", 1)
  \/ \E id \in Ids(events) : DeleteEvent(id)
  \/ InitCosmosClient(TRUE, TRUE)
  \/ \E c \in {"manual", "retry1"} : CallerStep(c)

SpecDelete == Init /\ [][NextDelete]_vars

\* A manual sync and a retry with local storage failures of
\* updateEventSyncStatus inside a pass.
NextFault ==
  \/ nextId <= MaxEvents /\ CreateEvent("tic", 1)
  \/ \E valid \in BOOLEAN : InitCosmosClient(valid, TRUE)
  \/ \E c \in {"manual", "retry1"} : CallerStep(c) \/ StorageFault(c)

SpecFault == Init /\ [][NextFault]_vars

\* The merged view read while events of different start times are created
\* and synced and the client is (re)initialised.
NextMerge ==
  \/ \E startedAt \in StartTimes :
       nextId <= MaxEvents /\ CreateEvent("tic", startedAt)
  \/ \E valid \in BOOLEAN : InitCosmosClient(valid, TRUE)
  \/ SyncCall("manual") \/ PassStep("manual")
  \/ MergeRead("reader") \/ MergeFetch("reader")

SpecMerge == Init /\ [][NextMerge]_vars

\* The merged view read while events are created, synced and deleted from
\* the local table, so that the container can hold ids the table has lost.
NextView ==
  \/ \E startedAt \in StartTimes :
       nextId <= MaxEvents /\ CreateEvent("tic", startedAt)
  \/ InitCosmosClient(TRUE, TRUE)
  \/ SyncCall("manual") \/ PassStep("manual")
  \/ \E id \in Ids(events) : DeleteEvent(id)
  \/ MergeRead("reader") \/ MergeFetch("reader")

SpecView == Init /\ [][NextView]_vars

\* Manual passes, one after the other, over up to MaxBatch events, with the
\* clock running.
NextBatch ==
  \/ nextId <= MaxBatch /\ CreateEvent("tic", 1)
  \/ InitCosmosClient(TRUE, TRUE)
  \/ Tick
  \/ SyncCall("manual")
  \/ PassStep("manual")

SpecBatch == Init /\ [][NextBatch]_vars

\* Two overlapping retryFailedSyncs invocations.
NextOverlap ==
  \/ nextId <= MaxEvents /\ CreateEvent("tic", 1)
  \/ InitCosmosClient(TRUE, TRUE)
  \/ \E c \in {"retry1", "retry2"} : PassStep(c) \/ RetryStep(c)
  \/ SyncCall("manual") \/ PassStep("manual")

SpecOverlap == Init /\ [][NextOverlap]_vars

\* The local store on its own: create and delete, with ids that may be
\* absent, and the clock running.
NextStore ==
  \/ \E eventType \in ValidEventTypes, startedAt \in StartTimes :
       nextId <= MaxEvents /\ CreateEvent(eventType, startedAt)
  \/ Tick
  \/ \E id \in 1..(MaxEvents + 1) : DeleteEvent(id)

SpecStore == Init /\ [][NextStore]_vars

\* Local and remote deletes of the oldest id and of an id nothing holds,
\* next to manual passes that fill the container.
NextRemove ==
  \/ nextId <= MaxEvents /\ CreateEvent("tic", 1)
  \/ InitCosmosClient(TRUE, TRUE)
  \/ SyncCall("manual")
  \/ PassStep("manual")
  \/ \E id \in {1, nextId} : DeleteEvent(id)
  \/ \E id \in {1, nextId}, eventType \in {"tic", "other"} :
       DeleteEventFromCosmos(id, eventType)

SpecRemove == Init /\ [][NextRemove]_vars

\* (Re)initialisation with a complete or incomplete configuration against a
\* remote that is reachable or not, next to manual passes.
NextInit ==
  \/ nextId <= MaxEvents /\ CreateEvent("tic", 1)
  \/ \E valid \in BOOLEAN, probeOk \in BOOLEAN :
       InitCosmosClient(valid, probeOk)
  \/ SyncCall("manual")
  \/ PassStep("manual")

SpecInit == Init /\ [][NextInit]_vars

\* (Re)initialisation from every configuration getAzureConfig() can hand
\* over, next to manual passes.
NextConfig ==
  \/ nextId <= MaxEvents /\ CreateEvent("tic", 1)
  \/ \E config \in AzureConfigs : InitFromConfig(config, TRUE)
  \/ SyncCall("manual")
  \/ PassStep("manual")

SpecConfig == Init /\ [][NextConfig]_vars

\* uploadEvent called directly for local rows, next to remote deletes.
NextUpload ==
  \/ \E eventType \in {"tic", "other"} :
       nextId <= MaxEvents /\ CreateEvent(eventType, 1)
  \/ InitCosmosClient(TRUE, TRUE)
  \/ \E i \in DOMAIN events : UploadEvent(events[i])
  \/ \E id \in 1..MaxEvents : DeleteEventFromCosmos(id, "tic")

SpecUpload == Init /\ [][NextUpload]_vars

\* Events saved through the EventLogger form, and deleted.
NextLogger ==
  \/ \E startDate \in FormDates,
        endDate \in {NULL} \cup {Some(d) : d \in FormDates} :
       nextId <= MaxEvents /\ HandleSave("tic", startDate, endDate)
  \/ Tick
  \/ \E id \in Ids(events) : DeleteEvent(id)

SpecLogger == Init /\ [][NextLogger]_vars

\* The three kinds of signed request, sent at different clock readings.
NextSign ==
  \/ nextId <= MaxEvents /\ CreateEvent("tic", 1)
  \/ InitCosmosClient(TRUE, TRUE)
  \/ Tick
  \/ \E i \in DOMAIN events : UploadEvent(events[i])
  \/ \E id \in 1..MaxEvents : DeleteEventFromCosmos(id, "tic")
  \/ FetchAllEvents

SpecSign == Init /\ [][NextSign]_vars

\* The four remote operations called while the client is initialized, and
\* after a later initCosmosClient found the configuration invalid.
NextInert ==
  \/ nextId <= MaxEvents /\ CreateEvent("tic", 1)
  \/ \E valid \in BOOLEAN : InitCosmosClient(valid, TRUE)
  \/ \E i \in DOMAIN events : UploadEvent(events[i])
  \/ \E id \in 1..MaxEvents : DeleteEventFromCosmos(id, "tic")
  \/ FetchAllEvents
  \/ \E eventType \in {"tic", "emotional"} : FetchEventsByType(eventType)

SpecInert == Init /\ [][NextInert]_vars

\* The legacy SyncService next to the screens that save records, with the
\* connection string set at any moment; calls are made while the container
\* holds fewer than MaxBlobs blobs.
NextLegacy ==
  \/ \E collection \in Collections :
       Len(database[collection]) < MaxEvents /\ CreateRecord(collection)
  \/ SetConnectionString
  \/ Len(blobs) < MaxBlobs /\ SyncAllCall
  \/ \E collection \in Collections :
       Len(blobs) < MaxBlobs /\ SyncCollectionCall(collection)
  \/ SyncFetch
  \/ SyncUploadData
  \/ SyncMark

SpecLegacy == Init /\ [][NextLegacy]_vars

\* Creates of events of different start times next to syncPendingEvents
\* called by the auto-sync timer and by retryFailedSyncs.
NextFrame ==
  \/ \E startedAt \in StartTimes :
       nextId <= MaxEvents /\ CreateEvent("tic", startedAt)
  \/ InitCosmosClient(TRUE, TRUE)
  \/ StartAutoSync
  \/ AutoSyncTick
  \/ PassStep("auto")
  \/ RetryStep("retry1") \/ PassStep("retry1")

SpecFrame == Init /\ [][NextFrame]_vars

\* Manual passes over events created at different times with start times in
\* any order.
NextFifo ==
  \/ \E startedAt \in StartTimes :
       nextId <= MaxEvents /\ CreateEvent("tic", startedAt)
  \/ Tick
  \/ InitCosmosClient(TRUE, TRUE)
  \/ SyncCall("manual")
  \/ PassStep("manual")

SpecFifo == Init /\ [][NextFifo]_vars

\* Status updates called directly on the local store, for the oldest id and
\* for an id no row has.
NextStatus ==
  \/ nextId <= MaxEvents /\ CreateEvent("tic", 1)
  \/ \E id \in {1, nextId}, status \in SyncStatuses,
        syncedAt \in {NULL, Some(now)} :
       UpdateEventSyncStatus(id, status, syncedAt)

SpecStatus == Init /\ [][NextStatus]_vars

\* getSyncState read while a manual sync and a retry run.
NextState ==
  \/ nextId <= MaxEvents /\ CreateEvent("tic", 1)
  \/ InitCosmosClient(TRUE, TRUE)
  \/ \E c \in {"manual", "retry1"} : CallerStep(c)
  \/ StateReadPending("viewer") \/ StateReadErrors("viewer")

SpecState == Init /\ [][NextState]_vars

\* Background sync alone: events are created, the client is initialised,
\* startAutoSync is called and the timer ticks; uploads may fail.
NextAuto ==
  \/ nextId <= MaxEvents /\ CreateEvent("tic", 1)
  \/ InitCosmosClient(TRUE, TRUE)
  \/ StartAutoSync
  \/ AutoSyncTick
  \/ PassStep("auto")

\* setInterval keeps firing, every await of a pass resolves, and an upload
\* that is tried again and again is eventually answered with success.
SpecAuto ==
  /\ Init /\ [][NextAuto]_vars
  /\ WF_vars(AutoSyncTick)
  /\ WF_vars(PassStep("auto"))
  /\ SF_vars(SyncUploadOk("auto"))

\* Background sync alone, over up to MaxBatch events and with the clock
\* running, with a remote that answers every upload with success.
NextAutoOk ==
  \/ nextId <= MaxBatch /\ CreateEvent("tic", 1)
  \/ InitCosmosClient(TRUE, TRUE)
  \/ Tick
  \/ StartAutoSync
  \/ AutoSyncTick
  \/ SyncRead("auto") \/ SyncUploadOk("auto") \/ SyncUpdate("auto")

\* setInterval keeps firing and every await of a pass resolves.
SpecAutoOk ==
  /\ Init /\ [][NextAutoOk]_vars
  /\ WF_vars(AutoSyncTick)
  /\ WF_vars(SyncRead("auto") \/ SyncUploadOk("auto") \/ SyncUpdate("auto"))

\* Background sync that is started and stopped at any moment, the remote
\* accepting or refusing each upload.
NextStop ==
  \/ nextId <= MaxEvents /\ CreateEvent("tic", 1)
  \/ InitCosmosClient(TRUE, TRUE)
  \/ StartAutoSync
  \/ StopAutoSync
  \/ AutoSyncTick
  \/ PassStep("auto")

\* Every await of a pass resolves: neither clearInterval nor anything else
\* holds back the continuation of a call already made.
SpecStop ==
  /\ Init /\ [][NextStop]_vars
  /\ WF_vars(PassStep("auto"))


\* ------------------------------------------------------------- properties
\* A pass of syncPendingEvents run for caller c is in flight: it has set
\* isSyncing and has not returned.
InPass(c) == pc[c] \in {"read", "upload", "update", "catch"}

PassInFlight == \E c \in Callers : InPass(c)

\* Caller c enters syncPendingEvents in this step.
CallsSync(c) == SyncCall(c) \/ RetryCall(c)

\* The sync_status of the local row with this id.
StatusOf(tbl, id) == RowOf(tbl, id).sync_status

\* C1: at most one pass is active in every reachable state, and a call of
\* syncPendingEvents that starts while a pass is in flight returns at once
\* with success=false, both counts 0 and the 'already in progress' message,
\* starts no pass, uploads nothing and changes no local row.
C1_MutualExclusion ==
  [][/\ Cardinality({c \in Callers : InPass(c)'}) <= 1
     /\ \A c \in Callers :
          (CallsSync(c) /\ PassInFlight) =>
            /\ ret' = ReturnValue(c, AlreadyInProgress)
            /\ ~InPass(c)'
            /\ remote' = remote
            /\ events' = events]_vars

\* A call was rejected with 'already in progress' while a pass is in flight.
C1_Witness ==
  /\ ret.op \in {"syncPendingEvents", "retryFailedSyncs"}
  /\ ret.sync = AlreadyInProgress
  /\ PassInFlight

\* C2: isSyncing is true exactly while a pass is in flight, so every pass
\* that set the flag has cleared it when it returns, on the normal paths
\* and when an exception escapes the loop, and no later call meets a stale
\* flag.
C2_FlagReleased == isSyncing <=> PassInFlight

\* A pass has just returned through the outer catch and the flag is clear.
C2_Witness ==
  /\ ret.op \in {"syncPendingEvents", "retryFailedSyncs"}
  /\ ret.sync # NoRet
  /\ ret.sync.message = "Sync failed: storage error"
  /\ ~isSyncing

\* C3: within one pass a failed upload marks that event 'error', leaves
\* every other row as it is, and the loop goes on to the next event of the
\* snapshot; every upload step is followed by the recording of its outcome,
\* and the pass returns its summary only after the last event of the
\* snapshot.
C3_NoCrossEventAbort ==
  [][\A c \in Callers :
       /\ (pc[c] = "update" /\ pc'[c] # "update") =>
            LET event == snap[c][idx[c]]
            IN /\ ~uploaded[c] => StatusOf(events', event.id) = "error"
               /\ \A id \in Ids(events) \ {event.id} :
                    RowOf(events', id) = RowOf(events, id)
               /\ IF idx[c] < Len(snap[c])
                  THEN /\ pc'[c] = "upload"
                       /\ idx'[c] = idx[c] + 1
                       /\ snap'[c] = snap[c]
                  ELSE /\ pc'[c] = "idle"
                       /\ ret'.sync.syncedCount + ret'.sync.errorCount
                            = Len(snap[c])
       /\ (pc[c] = "upload" /\ pc'[c] # "upload") =>
            /\ pc'[c] = "update"
            /\ idx'[c] = idx[c]
            /\ snap'[c] = snap[c]]_vars

\* In a pass over three events the first was synced, the second failed and
\* the upload of the third was attempted.
C3_Witness ==
  \E c \in Callers :
    /\ pc[c] = "update"
    /\ Len(snap[c]) = 3
    /\ idx[c] = 3
    /\ StatusOf(events, snap[c][1].id) = "synced"
    /\ StatusOf(events, snap[c][2].id) = "error"

\* The transitions of sync_status the orchestrator is meant to make.
AllowedTransitions ==
  {<<"pending", "synced">>, <<"pending", "error">>, <<"error", "pending">>}

\* C4: over any interleaving of creates, manual syncs, retries and the passes
\* they start, a row's sync_status either stays as it is or moves
\* pending->synced, pending->error or error->pending; in particular a
\* synced row never changes status again and no row goes error->synced.
C4_StatusTransitions ==
  [][\A id \in Ids(events) \cap Ids(events') :
       \/ StatusOf(events', id) = StatusOf(events, id)
       \/ <<StatusOf(events, id), StatusOf(events', id)>>
            \in AllowedTransitions]_vars

\* No two entries of the list carry the same id.
UniqueIds(s) == \A i, j \in DOMAIN s : s[i].id = s[j].id => i = j

\* C5: no step other than a deleteEvent removes a row from the local store,
\* so every created and not-deleted event stays there through uploads,
\* passes and retries; the remote container holds at most one accepted
\* document per id; and whenever either store changes, the merge of the
\* local listing with what the remote returns lists every id of either
\* exactly once.
C5_NoDuplicateNoLoss ==
  [][/\ Ids(events) \subseteq Ids(events') \/ \E id \in 1..MaxEvents : DeleteEvent(id)
     /\ Ids(events') \subseteq 1..(nextId' - 1)
     /\ UniqueIds(events')
     /\ UniqueIds(remote')
     /\ <<events', remote'>> # <<events, remote>> =>
          \A queryOk \in BOOLEAN :
          \A localEvents \in {getAllEvents(events')} :
          \A cloudEvents \in {fetchAllEvents(remote', queryOk)} :
          \A merged \in {getMergedEvents(localEvents, cloudEvents)} :
            /\ UniqueIds(merged)
            /\ Ids(merged) = Ids(localEvents) \cup Ids(cloudEvents)]_vars

\* A retry pass has re-sent an event the container had already accepted
\* (the first answer was lost) and the event is in both stores.
C5_Witness ==
  /\ ret.op = "retryFailedSyncs"
  /\ ret.sync # NoRet
  /\ ret.sync.errorCount > 0
  /\ \E id \in Ids(events) \cap Ids(remote) : StatusOf(events, id) = "error"

\* C6: for every id the local listing and the fetched cloud listing both
\* hold, the entry getMergedEvents returns for that id is the local record,
\* field for field.
C6_LocalWins ==
  ret.op = "getMergedEvents" =>
    \A id \in Ids(ret.localEvents) \cap Ids(ret.cloudEvents) :
      RowOf(ret.result, id) = RowOf(ret.localEvents, id)

\* getMergedEvents returned with an id whose local and cloud copies differ.
C6_Witness ==
  /\ ret.op = "getMergedEvents"
  /\ \E id \in Ids(ret.localEvents) \cap Ids(ret.cloudEvents) :
       RowOf(ret.cloudEvents, id) # RowOf(ret.localEvents, id)

\* C7: with local reads working, every call of getMergedEvents returns a
\* list, whether the fetch was skipped, failed or succeeded; the list holds
\* every event of the local listing, and when the fetch was skipped because
\* the client is not initialized or the fetch failed, the list is exactly
\* the local listing.
C7_OfflineReads ==
  ret.op = "getMergedEvents" =>
    /\ ret.fetch \in {"skipped", "failed", "ok"}
    /\ \A i \in DOMAIN ret.localEvents :
         \E j \in DOMAIN ret.result : ret.result[j] = ret.localEvents[i]
    /\ ret.fetch # "ok" => ret.result = ret.localEvents

\* getMergedEvents returned after a failed fetch, with two local events of
\* different start times and a non-empty remote container.
C7_Witness ==
  /\ ret.op = "getMergedEvents"
  /\ ret.fetch = "failed"
  /\ remote # <<>>
  /\ \E i, j \in DOMAIN ret.localEvents :
       ret.localEvents[i].started_at # ret.localEvents[j].started_at

\* C8: when a pass records an upload that returned true, the event gets
\* sync_status 'synced' with a non-null synced_at and the pass counts it in
\* syncedCount; a synced row keeps its status and synced_at up to the
\* return; and when syncPendingEvents returns with no pending and no error
\* row left, getSyncState().message is "Up to date".
C8_SuccessfulSync ==
  [][/\ \A c \in Callers :
          (pc[c] = "update" /\ uploaded[c] /\ pc'[c] \in {"upload", "idle"}) =>
            LET id == snap[c][idx[c]].id
            IN /\ id \in Ids(events) =>
                    /\ RowOf(events', id).sync_status = "synced"
                    /\ RowOf(events', id).synced_at # NULL
               /\ IF pc'[c] = "upload"
                  THEN syncedCount'[c] = syncedCount[c] + 1
                  ELSE /\ ret'.op = "syncPendingEvents"
                       /\ ret'.sync.syncedCount = syncedCount[c] + 1
     /\ \A id \in Ids(events) \cap Ids(events') :
          StatusOf(events, id) = "synced" =>
            /\ StatusOf(events', id) = "synced"
            /\ RowOf(events', id).synced_at = RowOf(events, id).synced_at
     /\ (/\ ret'.op = "syncPendingEvents"
         /\ \A i \in DOMAIN events' : events'[i].sync_status = "synced")
          => getSyncState'.message = "Up to date"]_vars

\* syncPendingEvents returned having synced at least one event, every row
\* is synced with a synced_at, and the state message is "Up to date".
C8_Witness ==
  /\ ret.op = "syncPendingEvents"
  /\ ret.sync.syncedCount >= 1
  /\ events # <<>>
  /\ \A i \in DOMAIN events :
       events[i].sync_status = "synced" /\ events[i].synced_at # NULL
  /\ getSyncState.message = "Up to date"

\* C9: a call of syncPendingEvents made while the remote client is not
\* initialized and no pass is in flight returns success=false, both counts
\* 0 and "Cloud storage not configured", and leaves every local row, the
\* remote container, isSyncing and lastSyncTimestamp as they were.
C9_NotConfigured ==
  [][\A c \in Callers :
       (CallsSync(c) /\ ~PassInFlight /\ ~isCosmosClientInitialized) =>
         /\ ret' = ReturnValue(c, NotConfigured)
         /\ ~InPass(c)'
         /\ UNCHANGED <<events, remote, isSyncing, lastSyncTimestamp>>]_vars

\* A call was turned away as not configured while pending events wait and
\* an earlier pass had set lastSyncTimestamp.
C9_Witness ==
  /\ ret.op = "syncPendingEvents"
  /\ ret.sync = NotConfigured
  /\ ~isSyncing
  /\ lastSyncTimestamp # NULL
  /\ \E i \in DOMAIN events : events[i].sync_status = "pending"

\* The parts of C10 that hold as stated: an upload that returned false is
\* recorded as 'error', and retryFailedSyncs sets every error event it read
\* to 'pending', one after the other, before it calls syncPendingEvents.
FailThenFlip ==
  \A c \in Callers :
    /\ (pc[c] = "update" /\ ~uploaded[c] /\ pc'[c] \in {"upload", "idle"}) =>
         LET id == snap[c][idx[c]].id
         IN id \in Ids(events) => StatusOf(events', id) = "error"
    /\ (pc[c] = "flip" /\ <<pc[c], idx[c]>> # <<pc'[c], idx'[c]>>) =>
         LET id == errs[c][idx[c]].id
         IN /\ id \in Ids(events) => StatusOf(events', id) = "pending"
            /\ errs'[c] = errs[c]
            /\ IF idx[c] < Len(errs[c])
               THEN pc'[c] = "flip" /\ idx'[c] = idx[c] + 1
               ELSE pc'[c] = "call"

\* C10 as stated: FailThenFlip, and when a retryFailedSyncs that flipped
\* events returns, its call of syncPendingEvents has attempted an upload
\* for each of them.
C10_RetryReattemptsAll ==
  [][/\ FailThenFlip
     /\ \A c \in Retriers :
          (pc[c] \in {"call", "read", "update"} /\ pc'[c] = "idle") =>
            /\ idx[c] = Len(snap[c])
            /\ Ids(errs[c]) \subseteq Ids(snap[c])]_vars

\* C10 amended: FailThenFlip; the call of syncPendingEvents starts a pass
\* exactly when no pass is in flight and the remote client is initialized,
\* and is otherwise turned away without an upload and without a change to
\* any row; a pass it starts takes into its snapshot every flipped event
\* that is still pending when the pass reads the pending list, and returns
\* only after the last event of the snapshot.
C10_RetryReattemptsPending ==
  [][/\ FailThenFlip
     /\ \A c \in Retriers :
          /\ RetryCall(c) =>
               IF ~isSyncing /\ isCosmosClientInitialized
               THEN pc'[c] = "read" /\ errs'[c] = errs[c]
               ELSE /\ pc'[c] = "idle"
                    /\ ret'.sync \in {AlreadyInProgress, NotConfigured}
                    /\ UNCHANGED <<events, remote>>
          /\ (pc[c] = "read" /\ pc'[c] # "read") =>
               \A id \in Ids(errs[c]) \cap Ids(events) :
                 StatusOf(events, id) = "pending" =>
                   pc'[c] = "upload" /\ id \in Ids(snap'[c])
          /\ (pc[c] = "update" /\ pc'[c] = "idle") => idx[c] = Len(snap[c])]_vars

\* The pass started by retryFailedSyncs has just attempted the upload of an
\* event that retryFailedSyncs had flipped from 'error' to 'pending'.
C10_Witness ==
  \E c \in Retriers :
    /\ pc[c] = "update"
    /\ snap[c][idx[c]].id \in Ids(errs[c])

\* Auto-sync is running against an initialized client.
AutoSyncRunning == isCosmosClientInitialized /\ syncInterval

HasStatus(id, status) == id \in Ids(events) /\ StatusOf(events, id) = status

\* C11: with auto-sync running, fair ticks and a remote that eventually
\* accepts, every event in status 'error' eventually becomes 'synced'
\* without a retryFailedSyncs call.
C11_ErrorEventuallySynced ==
  \A id \in 1..MaxEvents :
    (AutoSyncRunning /\ HasStatus(id, "error")) ~> HasStatus(id, "synced")

\* C12: with the client initialized, auto-sync started and never stopped,
\* fair ticks and every upload returning true, every pending event
\* eventually becomes 'synced', also one created while a pass is in flight.
C12_PendingEventuallySynced ==
  \A id \in 1..MaxBatch :
    (AutoSyncRunning /\ HasStatus(id, "pending")) ~> HasStatus(id, "synced")

\* An event created while a pass was in flight (it is pending and not in the
\* snapshot the pass is working through) next to an event that pass synced.
C12_Witness ==
  /\ AutoSyncRunning
  /\ pc["auto"] \in {"upload", "update"}
  /\ \E id \in Ids(events) \ Ids(snap["auto"]) : HasStatus(id, "pending")
  /\ \E id \in Ids(snap["auto"]) : HasStatus(id, "synced")

\* C13: at most one recurring timer exists, and it exists exactly when
\* syncInterval holds a handle; startAutoSync leaves one timer, and none
\* new when one was running; stopAutoSync leaves no timer and, when none
\* was running, changes nothing.
C13_TimerIdempotence ==
  [][/\ timers' \in {0, 1}
     /\ syncInterval' <=> timers' = 1
     /\ StartAutoSync => /\ timers' = 1
                         /\ timers = 1 => UNCHANGED timerVars
     /\ StopAutoSync => /\ timers' = 0
                        /\ timers = 0 => UNCHANGED timerVars]_vars

\* The one timer is live and a tick of it has started a pass.
C13_Witness ==
  /\ timers = 1
  /\ syncInterval
  /\ InPass("auto")

\* C14: a tick invokes syncPendingEvents, and so starts a pass, only when
\* isSyncing is false and the remote client is initialized; a tick that
\* fires while a pass is in flight or while the client is not initialized
\* makes no call and changes no row, no document and no orchestrator or
\* client state; a pass is entered by "auto" only from such a tick.
C14_TickGuard ==
  [][/\ AutoSyncTick =>
          IF ~isSyncing /\ isCosmosClientInitialized
          THEN InPass("auto")' /\ isSyncing'
          ELSE /\ ret' = NoRet
               /\ UNCHANGED <<events, remote, isSyncing, lastSyncTimestamp,
                              timerVars, clientVars, callerVars>>
     /\ (AutoSyncTick /\ (PassInFlight \/ ~isCosmosClientInitialized)) =>
          /\ ret' = NoRet
          /\ UNCHANGED <<events, remote, isSyncing, lastSyncTimestamp,
                         timerVars, clientVars, callerVars>>
     /\ (~InPass("auto") /\ InPass("auto")') =>
          ~isSyncing /\ isCosmosClientInitialized /\ timers > 0]_vars

\* The timer is live while a manual pass is in flight: a tick fired now
\* must stay without effect.
C14_Witness ==
  /\ timers = 1
  /\ InPass("manual")
  /\ pc["auto"] = "idle"
  /\ isCosmosClientInitialized

\* The number of local rows with the given status.
CountStatus(tbl, status) ==
  Cardinality({i \in DOMAIN tbl : tbl[i].sync_status = status})

\* C15: the pendingCount and errorCount getSyncState returns are the numbers
\* of local rows with status pending and error as each list was read; the
\* message is "Syncing..." when a pass is active at the return, otherwise
\* "{n} event(s) pending sync" when the pending count n > 0, otherwise
\* "{m} event(s) failed to sync" when the error count m > 0, otherwise
\* "Up to date".
C15_MessagePriority ==
  [][\A c \in Callers :
       /\ (pc[c] = "idle" /\ pc'[c] = "errors") =>
            Len(snap'[c]) = CountStatus(events, "pending")
       /\ (pc[c] = "errors" /\ pc'[c] = "idle") =>
            \A r \in {ret'.result} :
              /\ ret'.op = "getSyncState"
              /\ r.pendingCount = Len(snap[c])
              /\ r.errorCount = CountStatus(events, "error")
              /\ r.isSyncing = PassInFlight
              /\ r.message =
                   IF PassInFlight THEN "Syncing..."
                   ELSE IF r.pendingCount > 0
                   THEN ToStr(r.pendingCount) \o " event(s) pending sync"
                   ELSE IF r.errorCount > 0
                   THEN ToStr(r.errorCount) \o " event(s) failed to sync"
                   ELSE "Up to date"]_vars

\* getSyncState returned with no pass active and both pending and failed
\* events in its counts: the pending message takes precedence.
C15_Witness ==
  /\ ret.op = "getSyncState"
  /\ ~ret.result.isSyncing
  /\ ret.result.pendingCount > 0
  /\ ret.result.errorCount > 0
  /\ ret.result.message = "1 event(s) pending sync"

\* C16: a step of createEvent returns a row whose id no existing row has,
\* with sync_status pending, synced_at null and created_at = updated_at; the
\* row is saved, the other rows are untouched, getAllEvents holds the row as
\* soon as the call returns, and holds it first when its started_at is later
\* than that of every other row.
C16_CreateContract ==
  [][ret'.op = "createEvent" =>
       \A e \in {ret'.result} :
         /\ e.id \notin Ids(events)
         /\ e.sync_status = "pending"
         /\ e.synced_at = NULL
         /\ e.created_at = e.updated_at
         /\ e.created_at = now
         /\ Len(events') = Len(events) + 1
         /\ \A i \in DOMAIN events : \E j \in DOMAIN events' :
              events'[j] = events[i]
         /\ \E j \in DOMAIN events' : events'[j] = e
         /\ \E j \in DOMAIN getAllEvents(events') :
              getAllEvents(events')[j] = e
         /\ (\A i \in DOMAIN events : events[i].started_at < e.started_at)
              => getAllEvents(events')[1] = e]_vars

\* createEvent returned an event that starts later than an older event and
\* getAllEvents lists it first, though it was saved last.
C16_Witness ==
  /\ ret.op = "createEvent"
  /\ Len(events) = 2
  /\ events[2] = ret.result
  /\ events[1].started_at < ret.result.started_at
  /\ getAllEvents(events)[1] = ret.result

\* s is in ascending created_at order.
AscendingCreatedAt(s) ==
  \A i, j \in DOMAIN s : i < j => s[i].created_at <= s[j].created_at

\* C17: the list of pending events a pass reads holds every pending row once,
\* in ascending created_at order whatever the started_at values; the pass
\* attempts the upload of the event at position k only when every earlier
\* event of the list has had its status updated and no later one has, no
\* other upload or update is under way, and it moves to position k + 1 only
\* with the update of event k; the documents reach the remote in ascending
\* created_at order.
C17_FifoPendingOrder ==
  [][/\ AscendingCreatedAt(getEventsBySyncStatus(events', "pending"))
     /\ AscendingCreatedAt(remote')
     /\ \A c \in Callers :
          /\ (pc[c] = "read" /\ pc'[c] = "upload") =>
               \A l \in {snap'[c]} :
                 /\ Len(l) = CountStatus(events, "pending")
                 /\ \A i \in DOMAIN events :
                      events[i].sync_status = "pending" =>
                        \E k \in DOMAIN l : l[k] = events[i]
                 /\ AscendingCreatedAt(l)
                 /\ idx'[c] = 1
          /\ (pc[c] = "upload" /\ pc'[c] = "update") =>
               /\ \A k \in DOMAIN snap[c] :
                    (k < idx[c]) <=> (StatusOf(events, snap[c][k].id) # "pending")
               /\ \A d \in Callers \ {c} : pc[d] \notin {"upload", "update"}
               /\ remote' # remote =>
                    remote' = Append(remote, snap[c][idx[c]])
          /\ (pc[c] = "update" /\ pc'[c] = "upload") =>
               /\ idx'[c] = idx[c] + 1
               /\ StatusOf(events', snap[c][idx[c]].id) # "pending"]_vars

\* A pass stands at its second upload: the first event of its list was
\* created earlier but started later than the second, and its status has
\* been updated.
C17_Witness ==
  /\ pc["manual"] = "upload"
  /\ idx["manual"] = 2
  /\ snap["manual"][1].created_at < snap["manual"][2].created_at
  /\ snap["manual"][1].started_at > snap["manual"][2].started_at
  /\ StatusOf(events, snap["manual"][1].id) # "pending"
  /\ StatusOf(events, snap["manual"][2].id) = "pending"

\* A step of updateEventSyncStatus that follows a call with the same
\* arguments.
SecondUpdate ==
  /\ ret.op = "updateEventSyncStatus"
  /\ ret'.op = "updateEventSyncStatus"
  /\ ret'.id = ret.id
  /\ ret'.status = ret.status
  /\ ret'.synced_at = ret.synced_at

\* C18 as stated: a second updateEventSyncStatus call with the same
\* arguments leaves the table as the first call left it.
C18_UpdateTwiceSameState ==
  [][SecondUpdate => events' = events]_vars

\* C18: a second updateEventSyncStatus call with the same arguments leaves
\* every row as the first call left it, but for the updated_at of the row
\* with that id, which holds the clock reading of the second call; when no
\* row has the id the table is unchanged.
C18_UpdateTwiceButUpdatedAt ==
  [][SecondUpdate =>
       /\ DOMAIN events' = DOMAIN events
       /\ \A i \in DOMAIN events :
            IF events[i].id = ret.id
            THEN /\ events'[i] = [events[i] EXCEPT !.updated_at = now']
                 /\ events[i].sync_status = ret.status
                 /\ events[i].synced_at = ret.synced_at
            ELSE events'[i] = events[i]]_vars

\* The same status update was called twice on an existing row, the second
\* time at a later clock reading than the row's creation.
C18_Witness ==
  /\ ret.op = "updateEventSyncStatus"
  /\ ret.repeated
  /\ ret.id \in Ids(events)
  /\ RowOf(events, ret.id).sync_status = ret.status
  /\ RowOf(events, ret.id).updated_at > RowOf(events, ret.id).created_at

\* The container holds a document of that id under that partition key.
RemoteHolds(store, id, eventType) ==
  \E i \in DOMAIN store : store[i].id = id /\ store[i].event_type = eventType

\* C19: deleteEvent returns without error, leaves no row of the id and
\* every other row in place, and changes nothing when no row has the id, so
\* that a second deleteEvent of the same id changes nothing;
\* deleteEventFromCosmos reports success when the container answers 'not
\* found' and then leaves the container unchanged, holds no document of the
\* id after any reported success, and a second call after a reported success
\* changes nothing and removes nothing.
C19_IdempotentDelete ==
  [][/\ ret'.op = "deleteEvent" =>
          /\ ret'.result = "ok"
          /\ ret'.id \notin Ids(events')
          /\ \A i \in DOMAIN events :
               events[i].id # ret'.id =>
                 \E j \in DOMAIN events' : events'[j] = events[i]
          /\ Len(events') =
               Len(events) - Cardinality({i \in DOMAIN events :
                                            events[i].id = ret'.id})
          /\ ret'.id \notin Ids(events) => events' = events
          /\ ret'.repeated => events' = events
     /\ ret'.op = "deleteEventFromCosmos" =>
          /\ (ret'.sent /\ ret'.status # 0
                /\ ~RemoteHolds(remote, ret'.id, ret'.eventType)) =>
               ret'.status \in {404, 401, 429, 500}
          /\ ret'.status = 404 =>
               /\ ret'.result
               /\ ~RemoteHolds(remote, ret'.id, ret'.eventType)
          /\ ~RemoteHolds(remote, ret'.id, ret'.eventType) => remote' = remote
          /\ ret'.result => ~RemoteHolds(remote', ret'.id, ret'.eventType)
          /\ ret'.repeated =>
               /\ remote' = remote
               /\ ret'.status \notin 200..299
               /\ ret'.status = 404 => ret'.result]_vars

\* deleteEventFromCosmos was called a second time for an event that a pass
\* had uploaded and the first call removed: the container answered 404 and
\* the call reported success.
C19_Witness ==
  /\ ret.op = "deleteEventFromCosmos"
  /\ ret.repeated
  /\ ret.status = 404
  /\ ret.result
  /\ ret.id \in Ids(events)
  /\ StatusOf(events, ret.id) = "synced"
  /\ ret.id \notin Ids(remote)

\* C20: initCosmosClient returns true and leaves the client initialized only
\* when the configuration is complete and the connectivity probe succeeds;
\* when the probe fails it returns false and the client is not initialized.
C20_InitProbesConnectivity ==
  [][ret'.op = "initCosmosClient" =>
       /\ ret'.result = isCosmosClientInitialized'
       /\ ret'.result => (ret'.valid /\ ret'.probeOk)
       /\ ~ret'.probeOk => (~ret'.result /\ ~isCosmosClientInitialized')]_vars

\* C21: initCosmosClient with a configuration that lacks any of its four
\* strings returns false and leaves the client not initialized, also when
\* it was initialized before; the step is the very step the call takes with
\* no configuration at all; and a syncPendingEvents call that follows it is
\* turned away (as not configured, or as already in progress while an
\* earlier pass runs) without touching the rows or the container.
C21_PartialConfiguration ==
  [][/\ \A config \in AzureConfigs \ {NULL} :
          (~isAzureConfigValid(config) /\ InitFromConfig(config, TRUE)) =>
            /\ ret'.op = "initCosmosClient"
            /\ ~ret'.result
            /\ ~isCosmosClientInitialized'
            /\ InitFromConfig(NULL, TRUE)
     /\ \A c \in Callers :
          (ret.op = "initCosmosClient" /\ ~ret.valid /\ CallsSync(c)) =>
            /\ ret' = ReturnValue(c, IF PassInFlight THEN AlreadyInProgress
                                     ELSE NotConfigured)
            /\ ~InPass(c)'
            /\ UNCHANGED <<events, remote, isSyncing, lastSyncTimestamp>>]_vars

\* An initialized client was re-initialized with an incomplete
\* configuration: the call returned false and the client is no longer
\* initialized, with pending events waiting and a pass done before.
C21_Witness ==
  /\ ret.op = "initCosmosClient"
  /\ ~ret.valid
  /\ ~ret.result
  /\ azureConfig
  /\ ~isCosmosClientInitialized
  /\ lastSyncTimestamp # NULL
  /\ \E i \in DOMAIN events : events[i].sync_status = "pending"

\* The container holds a document of that id.
Accepted(id) == id \in Ids(remote)

\* C22: uploadEvent raises an authentication error to its caller on a 401 or
\* 403 answer, a not-found error on 404 and a rate-limit error on 429,
\* returns false on every other non-success answer, and returns true only
\* when the container accepted the document.
C22_UploadOutcomeMapping ==
  ret.op = "uploadEvent" =>
    /\ ret.status \in {401, 403} =>
         ret.raised = "Invalid Azure Cosmos DB credentials"
    /\ ret.status = 404 => ret.raised = "Database or container not found"
    /\ ret.status = 429 =>
         ret.raised = "Rate limit exceeded - please try again later"
    /\ (ret.sent /\ ret.status \notin {401, 403, 404, 429} \cup (200..299)) =>
         (ret.raised = "none" /\ ~ret.result)
    /\ ret.result = TRUE => (ret.status \in 200..299 /\ Accepted(ret.id))

\* r is a result of the shape {success, syncedCount, errorCount, message}.
StructuredResult(r) ==
  /\ DOMAIN r = {"success", "syncedCount", "errorCount", "message"}
  /\ r.success \in BOOLEAN
  /\ r.syncedCount \in Nat
  /\ r.errorCount \in Nat
  /\ r.message \in {AlreadyInProgress.message, NotConfigured.message,
                     NoEventsToSync.message,
                     PassSummary(r.syncedCount, r.errorCount).message,
                     SyncFailed(r.syncedCount, r.errorCount).message}

\* The invocation of syncPendingEvents for caller c ends in this step.
SyncEnds(c) ==
  /\ CallsSync(c) \/ InPass(c)
  /\ ~InPass(c)'

\* C23: every way an invocation of syncPendingEvents ends, turned away as
\* not configured or already in progress, after its loop, with no events,
\* or after a local storage failure, hands its caller a result of the shape
\* {success, syncedCount, errorCount, message}; and an upload that failed,
\* whatever the answer of the container, is recorded in that event's
\* sync_status = error once the update is written, and the pass goes on.
C23_NeverThrows ==
  [][\A c \in Callers :
       /\ SyncEnds(c) =>
            /\ ret'.op \in {"syncPendingEvents", "retryFailedSyncs"}
            /\ ret'.caller = c
            /\ StructuredResult(ret'.sync)
            /\ ret' = ReturnValue(c, ret'.sync)
       /\ (pc[c] \in {"update", "catch"} /\ ~uploaded[c]
             /\ pc'[c] \in {"upload", "idle"} /\ events' # events) =>
            /\ StatusOf(events', snap[c][idx[c]].id) = "error"
            /\ pc'[c] = "idle" =>
                 ret'.sync = PassSummary(ret'.sync.syncedCount,
                                         ret'.sync.errorCount)]_vars

\* A pass recorded one failed upload as error, then met a local storage
\* failure at its second event and returned 'Sync failed' with the counts
\* so far instead of throwing.
C23_Witness ==
  /\ ret.op \in {"syncPendingEvents", "retryFailedSyncs"}
  /\ ret.sync = SyncFailed(0, 1)
  /\ \E i \in DOMAIN events : events[i].sync_status = "error"
  /\ \E i \in DOMAIN events : events[i].sync_status = "pending"

\* C24: every row saved through EventLogger with ended_at set has a
\* duration_seconds that is the whole number of seconds from started_at to
\* ended_at, rounded down, and is not negative; a row without ended_at has
\* no duration.
C24_DerivedDuration ==
  \A i \in DOMAIN events :
    \A e \in {events[i]} :
      IF e.ended_at = NULL
      THEN e.duration_seconds = NULL
      ELSE /\ e.duration_seconds # NULL
           /\ \A d \in {e.duration_seconds[1]} :
                /\ d * 1000 <= getTime(e.ended_at[1]) - getTime(e.started_at)
                /\ getTime(e.ended_at[1]) - getTime(e.started_at) < (d + 1) * 1000
                /\ d >= 0

\* C25: in every signed request that uploadEvent, the query of fetchAllEvents
\* and deleteEventFromCosmos send, the date in the signed text is the value
\* of the date header (in the lower case the signed text is written in) and
\* that value is the clock reading of the call; the verb signed is the
\* method of the request; the resource id signed is the path of the request,
\* the container for a POST to its docs and the document for a DELETE.
C25_SignatureDateCoupling ==
  (ret.op \in {"uploadEvent", "fetchAllEvents", "deleteEventFromCosmos"}
     /\ ret.request # NULL) =>
    \A rq \in {ret.request[1]} :
      \A text \in {rq.authorization.sig.text} :
        /\ text[4] = dateToLowerCase(rq.date)
        /\ text[4][1] = rq.date[1]
        /\ rq.date = toUTCString(now)
        /\ text[1] = toLowerCase(rq.method)
        /\ text[2] = "docs"
        /\ rq.url = IF rq.method = "POST" THEN text[3] \o <<"docs">>
                    ELSE text[3]
        /\ ret.op = "deleteEventFromCosmos" =>
             (rq.method = "DELETE" /\ rq.url[Len(rq.url)] = ret.id)
        /\ ret.op # "deleteEventFromCosmos" => rq.method = "POST"

\* An upload, sent after the clock had advanced, carried the later reading
\* both in its date header and in its signed text.
C25_Witness ==
  /\ ret.op = "uploadEvent"
  /\ ret.request # NULL
  /\ now > 1
  /\ ret.request[1].date = toUTCString(now)
  /\ ret.request[1].authorization.sig.text[4][1] = now

\* The fields of a row that no sync operation writes.
Content(e) ==
  [id |-> e.id, event_type |-> e.event_type, started_at |-> e.started_at,
   created_at |-> e.created_at]

\* C26: a step of createEvent appends one new pending row and leaves every
\* existing row as it is; every other step (of syncPendingEvents,
\* retryFailedSyncs, the auto-sync timer and the passes they start) keeps
\* the rows in place, none added and none removed, and changes at most
\* sync_status, synced_at and updated_at of a row, never its id,
\* event_type, started_at or created_at.
C26_SingleWriterFrame ==
  [][IF ret'.op = "createEvent" /\ nextId' # nextId
     THEN /\ Len(events') = Len(events) + 1
          /\ \A i \in DOMAIN events : events'[i] = events[i]
          /\ events'[Len(events')].sync_status = "pending"
          /\ events'[Len(events')].id \notin Ids(events)
     ELSE /\ Len(events') = Len(events)
          /\ \A i \in DOMAIN events :
               Content(events'[i]) = Content(events[i])]_vars

\* A retry pass has synced an event that an earlier pass had failed, next
\* to a second event of another start time, with the auto-sync timer on.
C26_Witness ==
  /\ Len(events) = 2
  /\ events[1].sync_status = "synced"
  /\ events[1].synced_at # NULL
  /\ events[1].started_at # events[1].created_at
  /\ events[1].started_at # events[2].started_at
  /\ ret.op = "retryFailedSyncs"
  /\ timers = 1
  /\ ret.op = "retryFailedSyncs"
  /\ timers = 1

\* How many events of the list l have this status in table tbl.
CountOf(l, tbl, status) ==
  Cardinality({k \in DOMAIN l : StatusOf(tbl, l[k].id) = status})

\* C27: each recording step of a pass changes the row of the event the loop
\* stands at and no other, and the counts then add up to the number of
\* events gone through; when the loop over the n > 0 events completes,
\* syncedCount + errorCount = n, syncedCount is the number of these events
\* now synced and errorCount the number now in error, success is true
\* exactly when errorCount = 0, the message is "Synced N events
\* successfully" when errorCount = 0 and "Synced N events, M failed"
\* otherwise, and lastSyncTimestamp is set to the clock reading; a pass
\* that finds no pending event returns success with zero counts and sets
\* lastSyncTimestamp too.
C27_PassAccounting ==
  [][\A c \in Callers :
       /\ (pc[c] = "update" /\ pc'[c] # "update") =>
            /\ \A i \in DOMAIN events :
                 (events'[i] # events[i]) <=> (events[i].id = snap[c][idx[c]].id)
            /\ pc'[c] = "upload" =>
                 syncedCount'[c] + errorCount'[c] = idx[c]
       /\ (pc[c] = "update" /\ pc'[c] = "idle") =>
            \A r \in {ret'.sync} :
              /\ Len(snap[c]) > 0
              /\ r.syncedCount + r.errorCount = Len(snap[c])
              /\ r.syncedCount = CountOf(snap[c], events', "synced")
              /\ r.errorCount = CountOf(snap[c], events', "error")
              /\ r.success <=> (r.errorCount = 0)
              /\ r.message =
                   IF r.errorCount = 0
                   THEN "Synced " \o ToStr(r.syncedCount) \o " events successfully"
                   ELSE "Synced " \o ToStr(r.syncedCount) \o " events, "
                          \o ToStr(r.errorCount) \o " failed"
              /\ lastSyncTimestamp' = Some(now)
       /\ (pc[c] = "read" /\ pc'[c] = "idle") =>
            /\ CountStatus(events, "pending") = 0
            /\ ret'.sync = [success |-> TRUE, syncedCount |-> 0,
                            errorCount |-> 0, message |-> "No events to sync"]
            /\ lastSyncTimestamp' = Some(now)]_vars

\* A pass over three events returned "Synced 2 events, 1 failed" and set
\* lastSyncTimestamp to a reading later than that of an earlier pass.
C27_Witness ==
  /\ ret.op = "syncPendingEvents"
  /\ ret.sync.message = "Synced 2 events, 1 failed"
  /\ ~ret.sync.success
  /\ lastSyncTimestamp = Some(now)
  /\ now > 1
  /\ CountStatus(events, "synced") = 2
  /\ CountStatus(events, "error") = 1

\* C28: once updateEventSyncStatus has failed while a pass records the
\* outcome of an upload, the pass stops: its next step returns, without
\* throwing, success = false with the 'Sync failed' message and the counts
\* accumulated so far, clears isSyncing, leaves lastSyncTimestamp and the
\* table as they are, and the events of the snapshot not yet reached are
\* still pending.
C28_StorageFailureStopsPass ==
  [][\A c \in Callers :
       (pc[c] = "catch" /\ pc'[c] # "catch") =>
         /\ pc'[c] = "idle"
         /\ ret'.op \in {"syncPendingEvents", "retryFailedSyncs"}
         /\ ret'.sync = SyncFailed(syncedCount[c], errorCount[c])
         /\ ~ret'.sync.success
         /\ ~isSyncing'
         /\ lastSyncTimestamp' = lastSyncTimestamp
         /\ events' = events
         /\ \A k \in DOMAIN snap[c] :
              k > idx[c] => StatusOf(events', snap[c][k].id) = "pending"]_vars

\* C29: updateEventSyncStatus on an id that no row of the table has returns
\* without an error, adds no row and leaves every row as it was.
C29_UpdateAbsentIdNoOp ==
  [][(/\ ret'.op = "updateEventSyncStatus"
      /\ ret'.id \notin Ids(events))
       => /\ "thrown" \notin DOMAIN ret'
          /\ Len(events') = Len(events)
          /\ Ids(events') = Ids(events)
          /\ \A i \in DOMAIN events : events'[i] = events[i]]_vars

\* The table holds one pending event, id 1, written at reading 1; an update
\* to synced for id 2 has returned at reading 2.
C29_Witness ==
  /\ ret.op = "updateEventSyncStatus"
  /\ ret.id = 2
  /\ ret.status = "synced"
  /\ ret.synced_at # NULL
  /\ now = 2
  /\ Ids(events) = {1}
  /\ events[1].sync_status = "pending"
  /\ events[1].updated_at = 1

\* C30: a stopAutoSync that clears the timer leaves a pass in flight where
\* it is (position, snapshot, counts, flag and table untouched); a pass in
\* flight with the timer cleared still returns with isSyncing cleared,
\* having recorded an outcome for every event of its snapshot; and while
\* the timer is cleared no pass is begun.
C30_NoMidFlightCancellation ==
  /\ [][(syncInterval /\ ~syncInterval') =>
          UNCHANGED <<callerVars, isSyncing, storeVars, lastSyncTimestamp>>]_vars
  /\ [][~syncInterval => ~(pc["auto"] = "idle" /\ pc'["auto"] # "idle")]_vars
  /\ (~syncInterval /\ pc["auto"] = "read")
        ~> (pc["auto"] = "idle" /\ ~isSyncing /\ ret.op = "syncPendingEvents")
  /\ \A S \in SUBSET (1..MaxEvents) :
       (/\ ~syncInterval
        /\ pc["auto"] \in {"upload", "update", "catch"}
        /\ Ids(snap["auto"]) = S)
         ~> (/\ pc["auto"] = "idle"
             /\ ~isSyncing
             /\ ret.op = "syncPendingEvents"
             /\ ret.sync.syncedCount + ret.sync.errorCount = Cardinality(S)
             /\ S \subseteq Ids(events)
             /\ \A id \in S : StatusOf(events, id) \in {"synced", "error"})

\* The timer was cleared while its pass stood at the second of two events,
\* the first already recorded and the second still pending.
C30_Witness ==
  /\ ~syncInterval
  /\ timers = 0
  /\ isSyncing
  /\ pc["auto"] = "upload"
  /\ Len(snap["auto"]) = 2
  /\ idx["auto"] = 2
  /\ StatusOf(events, snap["auto"][1].id) \in {"synced", "error"}
  /\ StatusOf(events, snap["auto"][2].id) = "pending"

\* C31: the ids of the list getMergedEvents returns are the ids of the
\* local listing together with the ids of the fetched cloud listing, no id
\* occurs at two places of the list, and started_at never increases along
\* the list.
C31_MergedViewShape ==
  ret.op = "getMergedEvents" =>
    /\ Ids(ret.result) = Ids(ret.localEvents) \cup Ids(ret.cloudEvents)
    /\ \A i, j \in DOMAIN ret.result :
         i # j => ret.result[i].id # ret.result[j].id
    /\ \A i, j \in DOMAIN ret.result :
         i < j => ret.result[i].started_at >= ret.result[j].started_at

\* getMergedEvents returned two events of different start times, the older
\* one fetched from the container only and the newer one local only.
C31_Witness ==
  /\ ret.op = "getMergedEvents"
  /\ ret.fetch = "ok"
  /\ Len(ret.result) = 2
  /\ \E a \in Ids(ret.cloudEvents) \ Ids(ret.localEvents) :
       \E b \in Ids(ret.localEvents) \ Ids(ret.cloudEvents) :
         RowOf(ret.result, a).started_at < RowOf(ret.result, b).started_at

\* C32: a call of fetchAllEvents, fetchEventsByType, uploadEvent or
\* deleteEventFromCosmos made while the client is not initialized sends no
\* request, leaves the container as it is and raises no error; the two
\* fetches return the empty list, the upload and the delete return false.
C32_UninitializedInert ==
  [][(/\ ~isCosmosClientInitialized
      /\ ret'.op \in {"fetchAllEvents", "fetchEventsByType", "uploadEvent",
                      "deleteEventFromCosmos"})
       => /\ remote' = remote
          /\ ~ret'.sent
          /\ ret'.request = NULL
          /\ "thrown" \notin DOMAIN ret'
          /\ ret'.op \in {"fetchAllEvents", "fetchEventsByType"}
               => ret'.result = <<>>
          /\ ret'.op = "uploadEvent"
               => ret'.result = FALSE /\ ret'.raised = "none"
          /\ ret'.op = "deleteEventFromCosmos"
               => ret'.result = FALSE]_vars

\* The client was initialized, took a document, and is uninitialized again;
\* a delete of that document returned false and the document is still there.
C32_Witness ==
  /\ ~isCosmosClientInitialized
  /\ azureConfig
  /\ ret.op = "deleteEventFromCosmos"
  /\ ~ret.result
  /\ ~ret.sent
  /\ ret.id \in Ids(remote)
  /\ ret.id \in Ids(events)

\* The records of the collection whose flag this step turns from false to
\* true.
MarkedNow(collection) ==
  {database[collection][i].id : i \in
     {j \in DOMAIN database[collection] :
        ~database[collection][j].synced /\ database'[collection][j].synced}}

\* C33: a step of the legacy SyncService that marks records synced is the
\* writer of a call whose batch upload returned a url, the container holds
\* a blob with that batch, and the records marked are exactly those of the
\* batch; the batch is the list of the records that were unsynced when it
\* was read; a call that rejects marks nothing and no record is marked
\* while there is no blob client; so a record created after the batch was
\* read keeps synced = false.
C33_LegacyBatchSync ==
  [][/\ \A collection \in Collections :
          MarkedNow(collection) # {} =>
            /\ legacy.pc = "write"
            /\ legacy.collection = collection
            /\ MarkedNow(collection) =
                 {legacy.unsynced[k] : k \in DOMAIN legacy.unsynced}
            /\ \E b \in DOMAIN blobs :
                 /\ blobs[b].fileName = collection
                 /\ blobs[b].data = legacy.unsynced
     /\ (legacy.pc = "read" /\ legacy'.pc = "upload") =>
          {legacy'.unsynced[k] : k \in DOMAIN legacy'.unsynced} =
            {r.id : r \in {database[legacy.collection][i] :
                             i \in DOMAIN database[legacy.collection]}
                    \ {q \in {database[legacy.collection][i] :
                                i \in DOMAIN database[legacy.collection]} :
                         q.synced}}
     /\ (/\ ret'.op \in {"syncTics", "syncEmotions", "syncAll"}
         /\ ret'.thrown # "none") =>
          \A collection \in Collections : MarkedNow(collection) = {}
     /\ ~blobServiceClient =>
          \A collection \in Collections : MarkedNow(collection) = {}]_vars

\* syncAll has marked the tics and stands before the writer of the
\* emotions with a batch of one, while a second emotion, saved after the
\* batch was read, waits unsynced.
C33_Witness ==
  /\ legacy.call = "syncAll"
  /\ legacy.collection = "emotions"
  /\ legacy.pc = "write"
  /\ legacy.unsynced = <<1>>
  /\ Len(database["emotions"]) = 2
  /\ ~database["emotions"][2].synced
  /\ Len(database["tics"]) > 0
  /\ \A i \in DOMAIN database["tics"] : database["tics"][i].synced

\* C34: in every state of the local table, a row has a synced_at exactly
\* when its sync_status is synced.
C34_SyncedAtIffSynced ==
  \A i \in DOMAIN events :
    (events[i].synced_at # NULL) <=> (events[i].sync_status = "synced")

\* A retry pass has returned: one row is synced with a synced_at, the other
\* is in error with synced_at null although the container holds it.
C34_Witness ==
  /\ ret.op = "retryFailedSyncs"
  /\ ret.sync # NoRet
  /\ ret.sync.syncedCount = 1
  /\ ret.sync.errorCount = 1
  /\ Ids(remote) = Ids(events)
  /\ \E i, j \in DOMAIN events :
       /\ events[i].sync_status = "synced"
       /\ events[i].synced_at # NULL
       /\ events[j].sync_status = "error"
       /\ events[j].synced_at = NULL

\* Caller c's pass holds a snapshot: it is past its read and has not
\* returned.
HoldsSnapshot(c) == pc[c] \in {"upload", "update", "catch"}

\* C35: the read of a pass takes every row that is pending at that moment
\* into the snapshot, and the snapshot stays as read until the pass
\* returns; a step of the pass sends to the container nothing but the
\* snapshot event it stands at and changes no row whose id is outside the
\* snapshot; and a row leaves status pending only in the recording step of
\* a pass that holds it in its snapshot, so that an event created or put
\* back to pending after the read is pending when the next pass reads.
C35_SnapshotSemantics ==
  [][/\ \A c \in Callers :
          /\ (pc[c] = "read" /\ pc'[c] = "upload") =>
               snap'[c] = getEventsBySyncStatus(events, "pending")
          /\ (pc[c] = "read" /\ pc'[c] = "idle") =>
               CountStatus(events, "pending") = 0
          /\ (HoldsSnapshot(c) /\ HoldsSnapshot(c)') => snap'[c] = snap[c]
          /\ (HoldsSnapshot(c) /\ <<pc[c], idx[c]>>' # <<pc[c], idx[c]>>) =>
               /\ remote' # remote =>
                    remote' = Append(remote, snap[c][idx[c]])
               /\ \A i \in DOMAIN events :
                    events[i].id \notin Ids(snap[c]) => events'[i] = events[i]
     /\ \A i \in DOMAIN events :
          (/\ events[i].sync_status = "pending"
           /\ events'[i].sync_status # "pending") =>
            \E c \in Callers :
              /\ pc[c] \in {"update", "catch"}
              /\ snap[c][idx[c]].id = events[i].id]_vars

\* The timer's pass stands at the only event of its snapshot while a second
\* row, in error when the pass read and put back to pending by a retry
\* since, is pending outside the snapshot.
C35_Witness ==
  /\ HoldsSnapshot("auto")
  /\ Len(snap["auto"]) = 1
  /\ CountStatus(events, "pending") = 2
  /\ pc["retry1"] = "call"
  /\ \E k \in DOMAIN events :
       /\ events[k].id \notin Ids(snap["auto"])
       /\ events[k].sync_status = "pending"
       /\ events[k].id \in Ids(errs["retry1"])

\* C36: the counts one getSyncState call returns describe one state of the
\* table: no event is both in the pending list and in the error list the
\* call read, and the two counts together do not exceed the number of rows.
C36_ReadConsistency ==
  [][\A c \in Callers :
       (pc[c] = "errors" /\ pc'[c] = "idle") =>
         /\ Ids(snap[c]) \cap Ids(getEventsBySyncStatus(events, "error")) = {}
         /\ ret'.result.pendingCount + ret'.result.errorCount
              <= Len(events)]_vars

\* C37: every document of the container carries sync_status pending and
\* synced_at null, and an event getMergedEvents returns from the cloud
\* listing alone is returned with sync_status pending.
C37_RemoteCopiesPending ==
  /\ \A i \in DOMAIN remote :
       /\ remote[i].sync_status = "pending"
       /\ remote[i].synced_at = NULL
  /\ ret.op = "getMergedEvents" =>
       \A id \in Ids(ret.result) \ Ids(ret.localEvents) :
         RowOf(ret.result, id).sync_status = "pending"

\* getMergedEvents returned an event the table no longer holds, taken from
\* the container with status pending, next to a local event that is synced
\* and whose copy in the container says pending.
C37_Witness ==
  /\ ret.op = "getMergedEvents"
  /\ ret.fetch = "ok"
  /\ \E a \in Ids(ret.result) \ Ids(ret.localEvents) :
       /\ RowOf(ret.result, a).sync_status = "pending"
       /\ a \in Ids(remote)
  /\ \E b \in Ids(ret.localEvents) \cap Ids(ret.cloudEvents) :
       /\ RowOf(ret.result, b).sync_status = "synced"
       /\ RowOf(ret.cloudEvents, b).sync_status = "pending"

\* C38: whenever no pass is in flight, every row with sync_status synced
\* has a document in the container and no row with sync_status pending or
\* error has one.
C38_LocalRemoteAgreement ==
  ~PassInFlight =>
    \A i \in DOMAIN events :
      (events[i].sync_status = "synced") <=> (events[i].id \in Ids(remote))

\* C39: a retryFailedSyncs whose call of syncPendingEvents finds a pass in
\* flight or the client not initialized has set every error event it read
\* to pending before, sends nothing to the container, returns success =
\* false with the message of the rejection, and leaves the rows as they
\* are, the flipped ones pending; afterwards a row leaves pending only in
\* the recording step of a pass; and a retryFailedSyncs that finds no error
\* event returns success with 'No failed events to retry', starts no pass
\* and changes nothing.
C39_RetryRejected ==
  [][\A c \in Retriers :
       /\ (/\ pc[c] \in {"flip", "call"}
           /\ <<pc[c], idx[c]>>' # <<pc[c], idx[c]>>
           /\ pc'[c] \in {"flip", "call", "idle"}) =>
            remote' = remote
       /\ (pc[c] = "flip" /\ <<pc[c], idx[c]>>' # <<pc[c], idx[c]>>) =>
            /\ errs[c][idx[c]].id \in Ids(events) =>
                 StatusOf(events', errs[c][idx[c]].id) = "pending"
            /\ pc'[c] = "call" <=> idx[c] = Len(errs[c])
       /\ (/\ pc[c] = "call"
           /\ pc'[c] # "call"
           /\ isSyncing \/ ~isCosmosClientInitialized) =>
            /\ pc'[c] = "idle"
            /\ ret'.op = "retryFailedSyncs"
            /\ ret'.result =
                 [success |-> FALSE,
                  message |-> IF isSyncing THEN "Sync already in progress"
                              ELSE "Cloud storage not configured"]
            /\ UNCHANGED <<events, remote, isSyncing, lastSyncTimestamp>>
            /\ \A d \in Callers \ {c} : pc'[d] = pc[d] /\ snap'[d] = snap[d]
       /\ (pc[c] = "idle" /\ pc'[c] # "idle") =>
            CountStatus(events, "error") > 0
       /\ (/\ pc[c] = "idle"
           /\ ret'.op = "retryFailedSyncs"
           /\ ret'.caller = c
           /\ CountStatus(events, "error") = 0) =>
            /\ ret'.result = [success |-> TRUE,
                              message |-> "No failed events to retry"]
            /\ UNCHANGED <<events, remote, isSyncing, lastSyncTimestamp,
                           callerVars>>
       /\ \A i \in DOMAIN events :
            (/\ events[i].id \in Ids(errs[c])
             /\ events[i].sync_status = "pending"
             /\ events'[i].sync_status # "pending") =>
              \E d \in Callers :
                /\ pc[d] \in {"update", "catch"}
                /\ snap[d][idx[d]].id = events[i].id]_vars

\* retryFailedSyncs was turned away with 'Sync already in progress' while a
\* manual pass is in flight, and an event the pass does not hold in its
\* snapshot is pending.
C39_Witness ==
  /\ ret.op = "retryFailedSyncs"
  /\ ~ret.result.success
  /\ ret.result.message = "Sync already in progress"
  /\ HoldsSnapshot("manual")
  /\ \E i \in DOMAIN events :
       /\ events[i].sync_status = "pending"
       /\ events[i].id \notin Ids(snap["manual"])

\* C40: no step of a pass adds a row to the table; the recording step for
\* an event whose row was deleted since the read changes nothing, and
\* getAllEvents does not list the id afterwards; and when the container took
\* the event, a getMergedEvents whose fetch succeeds returns the id with
\* the container's copy.
C40_DeletedNotRecreated ==
  [][/\ \A c \in Callers :
          (HoldsSnapshot(c) /\ <<pc[c], idx[c]>>' # <<pc[c], idx[c]>>) =>
            /\ Ids(events') = Ids(events)
            /\ snap[c][idx[c]].id \notin Ids(events) =>
                 /\ events' = events
                 /\ snap[c][idx[c]].id \notin Ids(getAllEvents(events'))
     /\ (ret'.op = "getMergedEvents" /\ ret'.fetch = "ok") =>
          \A id \in Ids(ret'.cloudEvents) \ Ids(ret'.localEvents) :
            /\ id \in Ids(ret'.result)
            /\ RowOf(ret'.result, id) = RowOf(ret'.cloudEvents, id)]_vars

\* A pass is past its first event, whose row was deleted after the read and
\* which the container took; the table does not hold the id and
\* getMergedEvents has just returned it.
C40_Witness ==
  /\ HoldsSnapshot("manual")
  /\ idx["manual"] = 2
  /\ snap["manual"][1].id \notin Ids(events)
  /\ snap["manual"][1].id \in Ids(remote)
  /\ ret.op = "getMergedEvents"
  /\ snap["manual"][1].id \in Ids(ret.result)
  /\ snap["manual"][1].id \notin Ids(ret.localEvents)

====
